---- MODULE Spec2Model ----
(***************************************************************************)
(* A model of the terminal Tetris game (src/tetris.py) and of its          *)
(* heuristic player (src/tetris_ai.py).                                    *)
(*                                                                         *)
(* Conventions.                                                            *)
(*  - A board is a sequence of rows, a row a sequence of cells; the cell   *)
(*    of Python's board[r][c] is board[r+1][c+1].  0 is the empty cell     *)
(*    ' ', 1 an occupied one (every colour of COLORS is the same string).  *)
(*  - A piece is the record [type, rotation, x, y]; its shape is always    *)
(*    shapes[rotation] in the code, so ShapeOf derives it.                 *)
(*  - Times are in milliseconds.  since_fall is time.time() minus          *)
(*    last_fall_time; it only ever meets the thresholds fall_speed can     *)
(*    take, so it moves over those thresholds (ManualPoints, AllPoints)    *)
(*    and saturates at the largest of them.                                *)
(*  - Evaluator scores are the Python floats times 1000, and combined     *)
(*    scores times 10000: every weight and every heuristic value is then   *)
(*    an integer, and comparisons are exact.                               *)
(***************************************************************************)
EXTENDS Integers, Sequences, FiniteSets, TLC

VARIABLES
    width, height,      \* TetrisGame.width, TetrisGame.height; before the
                        \* game exists, the arguments of TetrisGame(...)
    board,              \* TetrisGame.board
    cur, nxt,           \* TetrisGame.current_piece, TetrisGame.next_piece
    score, level, lines_cleared,
    game_over, paused,
    fall_speed,         \* TetrisGame.fall_speed, in ms
    since_fall,         \* time.time() - TetrisGame.last_fall_time, in ms
    ai_mode,            \* play_game's ai_mode
    ai_move_made,       \* play_game's ai_move_made
    pc,                 \* "loop": between handlers; "execute_move": inside
                        \* execute_move's rotate loop, which never exits;
                        \* "new": about to construct the game; "ValueError":
                        \* the constructor has raised and play_game returned
    last_op,            \* the handler that ran last, with the branch it took
    last_move,          \* what the last get_best_move returned (NoMove: None)
    locks,              \* number of lock_piece calls so far (saturates)
    num_lines           \* what the last clear_lines call returned

vars == <<width, height, board, cur, nxt, score, level, lines_cleared,
          game_over, paused, fall_speed, since_fall, ai_mode, ai_move_made,
          pc, last_op, last_move, locks, num_lines>>

----------------------------------------------------------------------------
(* Bounds of the model. *)

\* Board of the game specifications.
Width == 4
Height == 4
\* Locks after which no further lock is taken.
MaxLocks == 2

----------------------------------------------------------------------------
(* Piece Catalog: SHAPES and Tetromino. *)

KindSeq == <<"I", "O", "T", "S", "Z", "J", "L">>

AllKinds == {KindSeq[i] : i \in 1..Len(KindSeq)}

SHAPES ==
    [k \in AllKinds |->
        CASE k = "I" -> << << <<1, 1, 1, 1>> >>,
                           << <<1>>, <<1>>, <<1>>, <<1>> >> >>
          [] k = "O" -> << << <<1, 1>>, <<1, 1>> >> >>
          [] k = "T" -> << << <<0, 1, 0>>, <<1, 1, 1>> >>,
                           << <<1, 0>>, <<1, 1>>, <<1, 0>> >>,
                           << <<1, 1, 1>>, <<0, 1, 0>> >>,
                           << <<0, 1>>, <<1, 1>>, <<0, 1>> >> >>
          [] k = "S" -> << << <<0, 1, 1>>, <<1, 1, 0>> >>,
                           << <<1, 0>>, <<1, 1>>, <<0, 1>> >> >>
          [] k = "Z" -> << << <<1, 1, 0>>, <<0, 1, 1>> >>,
                           << <<0, 1>>, <<1, 1>>, <<1, 0>> >> >>
          [] k = "J" -> << << <<1, 0, 0>>, <<1, 1, 1>> >>,
                           << <<1, 1>>, <<1, 0>>, <<1, 0>> >>,
                           << <<1, 1, 1>>, <<0, 0, 1>> >>,
                           << <<0, 1>>, <<0, 1>>, <<1, 1>> >> >>
          [] k = "L" -> << << <<0, 0, 1>>, <<1, 1, 1>> >>,
                           << <<1, 0>>, <<1, 0>>, <<1, 1>> >>,
                           << <<1, 1, 1>>, <<1, 0, 0>> >>,
                           << <<1, 1>>, <<0, 1>>, <<0, 1>> >> >>]

\* len(piece.shapes)
NumRotations(kind) == Len(SHAPES[kind])

\* Tetromino.__init__
Tetromino(kind) == [type |-> kind, rotation |-> 0, x |-> 0, y |-> 0]

\* piece.shape: the code keeps it equal to piece.shapes[piece.rotation]
ShapeOf(p) == SHAPES[p.type][p.rotation + 1]

\* Tetromino.rotate_cw
rotate_cw(p) == [p EXCEPT !.rotation = (p.rotation + 1) % NumRotations(p.type)]

\* for r, row in enumerate(shape): for c, val in enumerate(row): if val:
\* the <<r, c>> of every rotation state of every kind
ShapeCells ==
    [k \in AllKinds |->
        [i \in 1..Len(SHAPES[k]) |->
            LET sh == SHAPES[k][i] IN
            {<<rc[1] - 1, rc[2] - 1>> :
                rc \in {q \in (1..Len(sh)) \X (1..Len(sh[1])) : sh[q[1]][q[2]] = 1}}]]

\* Tetromino.get_cells, as <<row, column>> pairs
get_cells(p) ==
    {<<p.y + rc[1], p.x + rc[2]>> : rc \in ShapeCells[p.type][p.rotation + 1]}

----------------------------------------------------------------------------
(* Board Model: the TetrisGame methods as functions of their inputs. *)

EmptyRow(w) == [c \in 1..w |-> 0]

EmptyBoard(w, h) == [r \in 1..h |-> EmptyRow(w)]

\* all(cell != ' ' for cell in row)
RowFull(row) == \A c \in 1..Len(row) : row[c] # 0

\* spawn_piece with the column computed without the parentheses
spawn_piece_uncentred(kind, w) ==
    [Tetromino(kind) EXCEPT !.x = w - Len(SHAPES[kind][1][1]) \div 2, !.y = -2]

\* TetrisGame.spawn_piece, for the kind random.choice drew
spawn_piece(kind, w) ==
    [Tetromino(kind) EXCEPT !.x = (w - Len(SHAPES[kind][1][1])) \div 2, !.y = -2]

\* valid_position without the test new_y >= 0: a row above the board reads
\* the board as Python's negative index does, from the bottom
ValidOnWrap(b, w, h, p, offset_x, offset_y) ==
    \A cell \in get_cells(p) :
        LET new_y == cell[1] + offset_y
            new_x == cell[2] + offset_x
        IN  /\ ~(new_x < 0 \/ new_x >= w \/ new_y >= h)
            /\ b[((new_y + h) % h) + 1][new_x + 1] = 0

\* TetrisGame.valid_position on board b of w columns and h rows
ValidOn(b, w, h, p, offset_x, offset_y) ==
    \A cell \in get_cells(p) :
        LET new_y == cell[1] + offset_y
            new_x == cell[2] + offset_x
        IN  /\ ~(new_x < 0 \/ new_x >= w \/ new_y >= h)
            /\ ~(new_y >= 0 /\ b[new_y + 1][new_x + 1] # 0)

valid_position(p, offset_x, offset_y) ==
    ValidOn(board, width, height, p, offset_x, offset_y)

\* TetrisGame.place_piece
place_piece(b, w, h, p) ==
    LET cells == get_cells(p) IN
    [r \in 1..h |-> [c \in 1..w |-> IF <<r - 1, c - 1>> \in cells THEN 1 ELSE b[r][c]]]

\* clear_lines, first loop: the indices (Python's) of the full rows, ascending
LinesToClear(b, h) == SelectSeq([i \in 1..h |-> i - 1], LAMBDA r : RowFull(b[r + 1]))

\* The row removed, the empty row put at the bottom
DelAppend(b, r, w) ==
    [i \in 1..(Len(b) - 1) |-> IF i < r + 1 THEN b[i] ELSE b[i + 1]] \o <<EmptyRow(w)>>

\* del self.board[r]; self.board.insert(0, [' ' ...])
DelInsert(b, r, w) ==
    <<EmptyRow(w)>> \o [i \in 1..(Len(b) - 1) |-> IF i < r + 1 THEN b[i] ELSE b[i + 1]]

\* The second loop leaving after its first removal
ClearLoopOnce(b, todo, i, w) ==
    IF i > Len(todo) THEN b ELSE DelInsert(b, todo[i], w)

\* clear_lines, second loop, over lines_to_clear from its i-th entry on
RECURSIVE ClearLoop(_, _, _, _)
ClearLoop(b, todo, i, w) ==
    IF i > Len(todo) THEN b ELSE ClearLoop(DelInsert(b, todo[i], w), todo, i + 1, w)

\* The board clear_lines leaves
ClearedBoard(b, w, h) == ClearLoop(b, LinesToClear(b, h), 1, w)

\* num_lines, which clear_lines returns
NumLines(b, h) == Len(LinesToClear(b, h))

\* A table that grows by 100 points a row
PointsLinear == <<0, 100, 200, 300, 400>>

\* points: List[int] = [0, 100, 300, 500, 800]
Points == <<0, 100, 300, 500, 800>>

\* The fall speed of level 1 at every level
FirstLevelFallSpeed(lv) == 800

\* max(0.1, 0.8 - (level - 1) * 0.05), in ms
LevelFallSpeed(lv) == IF 800 - (lv - 1) * 50 > 100 THEN 800 - (lv - 1) * 50 ELSE 100

\* game.fall_speed = 0.05 in play_game, 0.005 in execute_move
AiFallSpeed == 50
AiDropSpeed == 5

\* since_fall saturates at the largest value fall_speed takes
SinceCap == LevelFallSpeed(1)

\* The thresholds since_fall is compared with at level lv: in manual play,
\* and when the AI's fall speeds are in use as well
ManualPoints(lv) == {LevelFallSpeed(lv), SinceCap}

AllPoints(lv) == {AiDropSpeed, AiFallSpeed, LevelFallSpeed(lv), SinceCap}

\* The piece moved down one row without the test of the row below
MoveDownUnchecked(p) == [p EXCEPT !.y = p.y + 1]

\* TetrisGame.move_down's effect on the piece
MoveDownPiece(p) == IF valid_position(p, 0, 1) THEN [p EXCEPT !.y = p.y + 1] ELSE p

\* The piece moved down one row at most
DropOneRow(p) == MoveDownPiece(p)

\* hard_drop's loop: while self.move_down(): pass
RECURSIVE DropPiece(_)
DropPiece(p) == IF valid_position(p, 0, 1) THEN DropPiece([p EXCEPT !.y = p.y + 1]) ELSE p

\* The wall kicks tried in the opposite order
KickOffsetsReversed == << <<2, 0>>, <<-2, 0>>, <<0, -1>>, <<1, 0>>, <<-1, 0>> >>

\* The wall kicks of TetrisGame.rotate, in its order
KickOffsets == << <<-1, 0>>, <<1, 0>>, <<0, -1>>, <<-2, 0>>, <<2, 0>> >>

\* rotate trying the wall kicks before the rotated position itself
RotatePieceKickFirst(p) ==
    LET q == rotate_cw(p)
        ok == {i \in 1..Len(KickOffsets) :
                  valid_position(q, KickOffsets[i][1], KickOffsets[i][2])}
        first == CHOOSE i \in ok : \A j \in ok : i <= j
    IN  IF ok # {}
        THEN [q EXCEPT !.x = q.x + KickOffsets[first][1],
                       !.y = q.y + KickOffsets[first][2]]
        ELSE IF valid_position(q, 0, 0) THEN q
        ELSE [q EXCEPT !.rotation = p.rotation]

\* TetrisGame.rotate's effect on the piece
RotatePiece(p) ==
    LET q == rotate_cw(p)
        ok == {i \in 1..Len(KickOffsets) :
                  valid_position(q, KickOffsets[i][1], KickOffsets[i][2])}
        first == CHOOSE i \in ok : \A j \in ok : i <= j
    IN  IF valid_position(q, 0, 0) THEN q
        ELSE IF ok # {}
             THEN [q EXCEPT !.x = q.x + KickOffsets[first][1],
                            !.y = q.y + KickOffsets[first][2]]
             ELSE [q EXCEPT !.rotation = p.rotation]

\* The branch TetrisGame.rotate takes on p
RotateBranch(p) ==
    LET q == rotate_cw(p) IN
    IF valid_position(q, 0, 0) THEN "rotate"
    ELSE IF \E i \in 1..Len(KickOffsets) :
                valid_position(q, KickOffsets[i][1], KickOffsets[i][2])
         THEN "rotate_kick"
         ELSE "rotate_revert"

----------------------------------------------------------------------------
(* Game State Machine: TetrisGame.lock_piece. *)

\* The level rising one cleared row late
LevelOfLate(lines) == (lines - 1) \div 10 + 1

\* self.level = self.lines_cleared // 10 + 1
LevelOf(lines) == lines \div 10 + 1

\* TetrisGame.clear_lines on board b: the board, the count it returns and
\* the counters it leaves
clear_lines(b) ==
    LET n == NumLines(b, height)
        lines == lines_cleared + n
    IN  [board |-> ClearedBoard(b, width, height),
         num_lines |-> n,
         score |-> IF n > 0 THEN score + Points[n + 1] * level ELSE score,
         lines_cleared |-> IF n > 0 THEN lines ELSE lines_cleared,
         level |-> IF n > 0 THEN LevelOf(lines) ELSE level,
         fall_speed |-> IF n > 0 THEN LevelFallSpeed(LevelOf(lines)) ELSE fall_speed]

\* lock_piece with the check for game over made on the piece being locked,
\* before the next piece is promoted
LockPieceCheckFirst(p, kind, cap, reset_speed) ==
    \E placed \in {place_piece(board, width, height, p)} :
    \E c \in {clear_lines(placed)} :
        /\ board' = c.board
        /\ num_lines' = c.num_lines
        /\ score' = c.score
        /\ lines_cleared' = c.lines_cleared
        /\ level' = c.level
        /\ fall_speed' = IF reset_speed THEN AiFallSpeed ELSE c.fall_speed
        /\ game_over' = IF ~ValidOn(c.board, width, height, p, 0, 0)
                        THEN TRUE ELSE game_over
        /\ cur' = nxt
        /\ nxt' = spawn_piece(kind, width)
        /\ since_fall' = 0
        /\ locks' = IF locks < cap THEN locks + 1 ELSE locks

\* TetrisGame.lock_piece on piece p, with `kind` drawn for the new next
\* piece: place_piece, clear_lines, promote next_piece, spawn_piece, reset
\* of the fall timer, then the check of the new current piece.  The locks
\* counter stops at cap.  With reset_speed, play_game's wrapper of update
\* has seen the piece change in AI mode and sets the AI's fall speed.
LockPiece(p, kind, cap, reset_speed) ==
    \E placed \in {place_piece(board, width, height, p)} :
    \E c \in {clear_lines(placed)} :
        /\ board' = c.board
        /\ num_lines' = c.num_lines
        /\ score' = c.score
        /\ lines_cleared' = c.lines_cleared
        /\ level' = c.level
        /\ fall_speed' = IF reset_speed THEN AiFallSpeed ELSE c.fall_speed
        /\ cur' = nxt
        /\ nxt' = spawn_piece(kind, width)
        /\ since_fall' = 0
        /\ game_over' = IF ~ValidOn(c.board, width, height, nxt, 0, 0)
                        THEN TRUE ELSE game_over
        /\ locks' = IF locks < cap THEN locks + 1 ELSE locks

----------------------------------------------------------------------------
(* Move Evaluator: TetrisAI.evaluate_board and its heuristics.  Every      *)
(* heuristic reads the board's own dimensions, len(board) and              *)
(* len(board[0]), as the code does.                                        *)

RECURSIVE SumSeq(_)
SumSeq(s) == IF s = <<>> THEN 0 ELSE Head(s) + SumSeq(Tail(s))

MinOf(S) == CHOOSE m \in S : \A n \in S : m <= n

MaxOf(S) == CHOOSE m \in S : \A n \in S : m >= n

Abs(n) == IF n < 0 THEN -n ELSE n

\* The scan of a column giving the row of its first occupied cell, counted
\* from the top
RECURSIVE ColumnDepth(_, _, _)
ColumnDepth(b, col, row) ==
    IF row >= Len(b) THEN 0
    ELSE IF b[row + 1][col] # 0 THEN row
    ELSE ColumnDepth(b, col, row + 1)

\* for row in range(len(board)): if board[row][col] != ' ': height =
\* len(board) - row; break -- from Python row `row` on
RECURSIVE ColumnHeight(_, _, _)
ColumnHeight(b, col, row) ==
    IF row >= Len(b) THEN 0
    ELSE IF b[row + 1][col] # 0 THEN Len(b) - row
    ELSE ColumnHeight(b, col, row + 1)

\* TetrisAI._get_column_heights
get_column_heights(b) == [col \in 1..Len(b[1]) |-> ColumnHeight(b, col, 0)]

\* TetrisAI._get_max_height
get_max_height(b) ==
    LET heights == get_column_heights(b) IN
    MaxOf({heights[c] : c \in 1..Len(heights)})

\* TetrisAI._aggregate_height
aggregate_height(b) == SumSeq(get_column_heights(b))

\* TetrisAI._count_holes
count_holes(b) ==
    Cardinality({rc \in (1..Len(b)) \X (1..Len(b[1])) :
        /\ b[rc[1]][rc[2]] = 0
        /\ \E above \in 1..(rc[1] - 1) : b[above][rc[2]] # 0})

\* TetrisAI._calculate_bumpiness
calculate_bumpiness(b) ==
    LET heights == get_column_heights(b) IN
    SumSeq([i \in 1..(Len(heights) - 1) |-> Abs(heights[i] - heights[i + 1])])

\* TetrisAI._count_complete_lines
count_complete_lines(b) == Cardinality({row \in 1..Len(b) : RowFull(b[row])})

\* TetrisAI._count_wells; a missing neighbour is float('inf')
count_wells(b) ==
    LET heights == get_column_heights(b)
        n == Len(heights)
        depth(i) ==
            LET current == heights[i]
                lower_left == i = 1 \/ current < heights[i - 1]
                lower_right == i = n \/ current < heights[i + 1]
                diffs == (IF i > 1 THEN {heights[i - 1] - current} ELSE {})
                         \cup (IF i < n THEN {heights[i + 1] - current} ELSE {})
            IN  IF lower_left /\ lower_right /\ diffs # {}
                THEN MinOf(diffs) * MinOf(diffs) ELSE 0
    IN  SumSeq([i \in 1..n |-> depth(i)])

\* TetrisAI._count_row_transitions
count_row_transitions(b) ==
    Cardinality({rc \in (1..Len(b)) \X (1..(Len(b[1]) - 1)) :
        (b[rc[1]][rc[2]] = 0) # (b[rc[1]][rc[2] + 1] = 0)})

\* TetrisAI._count_column_transitions
count_column_transitions(b) ==
    Cardinality({rc \in (1..(Len(b) - 1)) \X (1..Len(b[1])) :
        (b[rc[1]][rc[2]] = 0) # (b[rc[1] + 1][rc[2]] = 0)})

\* TetrisAI._count_pits
count_pits(b) ==
    LET heights == get_column_heights(b)
        h == Len(b)
        w == Len(b[1])
        weight(row, col) ==
            LET top_row == IF heights[col] > 0 THEN h - heights[col] ELSE h
                left_blocked == col = 1 \/ b[row][col - 1] # 0
                right_blocked == col = w \/ b[row][col + 1] # 0
                blocks_above == Cardinality({r \in 1..(row - 1) : b[r][col] # 0})
            IN  IF /\ row - 1 >= top_row
                   /\ b[row][col] = 0
                   /\ left_blocked /\ right_blocked
                   /\ blocks_above > 0
                THEN 1 + blocks_above ELSE 0
    IN  SumSeq([i \in 1..(h * w) |-> weight(((i - 1) \div w) + 1, ((i - 1) % w) + 1)])

\* TetrisAI._evaluate_well_quality, times 4 (its values are multiples of 0.25)
evaluate_well_quality(b) ==
    LET heights == get_column_heights(b)
        board_width == Len(b[1])
        well_score(col) ==
            LET well_height == heights[col]
                neighbor_col == IF col = 1 THEN 2 ELSE board_width - 1
                height_diff == heights[neighbor_col] - well_height
                base == IF 3 <= height_diff /\ height_diff <= 4 THEN 40
                        ELSE IF height_diff > 4 THEN 20 - (height_diff - 4) * 2
                        ELSE height_diff * 8
                is_clean == \A row \in (Len(b) - well_height + 1)..Len(b) :
                                ~(b[row][col] # 0)
            IN  IF height_diff >= 3
                THEN (IF is_clean THEN (base * 3) \div 2 ELSE base)
                ELSE 0
        left == well_score(1)
        best_left == IF left > 0 THEN left ELSE 0
        right == well_score(board_width)
    IN  IF right > best_left THEN right ELSE best_left

\* TetrisAI._evaluate_tetris_readiness
evaluate_tetris_readiness(b, piece_type) ==
    LET heights == get_column_heights(b)
        board_width == Len(b[1])
        board_height == Len(b)
        start_row(col) == board_height - heights[col] - 4
        potential_clears(col) ==
            Cardinality({row \in start_row(col)..(start_row(col) + 3) :
                /\ row >= 0 /\ row < board_height
                /\ Cardinality({c \in 1..board_width :
                       c # col /\ b[row + 1][c] # 0}) = board_width - 1
                /\ b[row + 1][col] = 0})
        cols == {col \in 1..board_width : start_row(col) >= 0}
    IN  IF piece_type # "I" THEN 0
        ELSE IF \E col \in cols : potential_clears(col) = 4 THEN 50
        ELSE IF \E col \in cols : potential_clears(col) = 3 THEN 15
        ELSE IF \E col \in cols : potential_clears(col) = 2 THEN 5
        ELSE 0

\* The danger flag raised from the threshold on
is_dangerous_at_threshold(b) == get_max_height(b) * 10 >= Len(b) * 6

\* is_dangerous = max_height > board_height * 0.6
is_dangerous(b) == get_max_height(b) * 10 > Len(b) * 6

\* well_quality_score: self._evaluate_well_quality(board) if not
\* is_dangerous, else 0 (times 4)
well_quality_score(b) == IF ~is_dangerous(b) THEN evaluate_well_quality(b) ELSE 0

\* tetris_ready_score: self._evaluate_tetris_readiness(board, piece_type) if
\* not is_dangerous, else 0
tetris_ready_score(b, piece_type) ==
    IF ~is_dangerous(b) THEN evaluate_tetris_readiness(b, piece_type) ELSE 0

\* TetrisAI.evaluate_board, times 1000
evaluate_board(b, piece_type) ==
    IF is_dangerous(b)
    THEN  - 2000 * aggregate_height(b)
          + 1500 * count_complete_lines(b)
          - 10000 * count_holes(b)
          - 1000 * calculate_bumpiness(b)
          - 5000 * get_max_height(b)
          - 2000 * count_wells(b)
          - 500 * count_row_transitions(b)
          - 300 * count_column_transitions(b)
          - 15000 * count_pits(b)
    ELSE  - 800 * aggregate_height(b)
          + 1200 * count_complete_lines(b)
          - 5000 * count_holes(b)
          - 300 * calculate_bumpiness(b)
          - 1500 * get_max_height(b)
          - 500 * count_wells(b)
          - 150 * count_row_transitions(b)
          - 100 * count_column_transitions(b)
          - 8000 * count_pits(b)
          + 75 * well_quality_score(b)
          + 800 * tetris_ready_score(b, piece_type)

----------------------------------------------------------------------------
(* Move Search: TetrisAI._get_best_move_with_2piece_lookahead.  Combined   *)
(* scores are Python's floats times 10000.                                 *)

\* TetrisAI._is_valid_on_board
is_valid_on_board(p, b, offset_x, offset_y) ==
    \A cell \in get_cells(p) :
        LET new_y == cell[1] + offset_y
            new_x == cell[2] + offset_x
        IN  /\ ~(new_x < 0 \/ new_x >= Len(b[1]) \/ new_y >= Len(b))
            /\ ~(new_y >= 0 /\ b[new_y + 1][new_x + 1] # 0)

\* The board handed back with its complete rows left in place
keep_lines_on_board(b) == b

\* The complete rows removed, the empty rows added below the rows kept
clear_lines_to_bottom(b) ==
    LET new_board == SelectSeq(b, LAMBDA row : ~RowFull(row))
        cleared == Len(b) - Len(new_board)
    IN  new_board \o [i \in 1..cleared |-> EmptyRow(Len(b[1]))]

\* TetrisAI._clear_lines_from_board
clear_lines_from_board(b) ==
    LET new_board == SelectSeq(b, LAMBDA row : ~RowFull(row))
        cleared == Len(b) - Len(new_board)
    IN  [i \in 1..cleared |-> EmptyRow(Len(b[1]))] \o new_board

\* test_board = [row[:] for row in board] with the test piece written into it
ScratchPlace(b, p) ==
    LET cells == get_cells(p) IN
    [r \in 1..Len(b) |->
        [c \in 1..Len(b[1]) |-> IF <<r - 1, c - 1>> \in cells THEN 1 ELSE b[r][c]]]

\* while self._is_valid_on_board(test_piece2, test_board1, offset_y=1): y += 1
RECURSIVE DropOn(_, _)
DropOn(b, p) ==
    IF is_valid_on_board(p, b, 0, 1) THEN DropOn(b, [p EXCEPT !.y = p.y + 1]) ELSE p

\* The x loop of one rotation of the current piece, from column x on, with
\* test_piece.y = y on entry (the piece object is reused across columns, and
\* y is reset to 0 only after the first validity test).  The resting pieces
\* that reach the evaluation, in loop order.
RECURSIVE ScanCurrent(_, _, _, _)
ScanCurrent(kind, rotation, x, y) ==
    IF x >= width + 2 THEN <<>>
    ELSE LET test_piece == [type |-> kind, rotation |-> rotation, x |-> x, y |-> y] IN
         IF ~valid_position(test_piece, 0, 0)
         THEN ScanCurrent(kind, rotation, x + 1, y)
         ELSE LET dropped == DropPiece([test_piece EXCEPT !.y = 0]) IN
              IF ~valid_position(dropped, 0, 0)
              THEN ScanCurrent(kind, rotation, x + 1, dropped.y)
              ELSE <<dropped>> \o ScanCurrent(kind, rotation, x + 1, dropped.y)

\* The same loop for the next piece on test_board1
RECURSIVE ScanNext(_, _, _, _, _)
ScanNext(b, kind, rotation, x, y) ==
    IF x >= Len(b[1]) + 2 THEN <<>>
    ELSE LET test_piece2 == [type |-> kind, rotation |-> rotation, x |-> x, y |-> y] IN
         IF ~is_valid_on_board(test_piece2, b, 0, 0)
         THEN ScanNext(b, kind, rotation, x + 1, y)
         ELSE LET dropped == DropOn(b, [test_piece2 EXCEPT !.y = 0]) IN
              IF ~is_valid_on_board(dropped, b, 0, 0)
              THEN ScanNext(b, kind, rotation, x + 1, dropped.y)
              ELSE <<dropped>> \o ScanNext(b, kind, rotation, x + 1, dropped.y)

RECURSIVE Flatten(_)
Flatten(ss) == IF ss = <<>> THEN <<>> ELSE Head(ss) \o Flatten(Tail(ss))

\* for rotation in range(num_rotations): test_piece = Tetromino(...); y = 0;
\* for x in range(-2, width + 2): the placements of the current piece that
\* the search evaluates, in loop order
CurrentPlacements(kind) ==
    Flatten([i \in 1..NumRotations(kind) |-> ScanCurrent(kind, i - 1, -2, 0)])

\* The placements of the next piece the search evaluates on test_board1
NextPlacements(b, kind) ==
    Flatten([i \in 1..NumRotations(kind) |-> ScanNext(b, kind, i - 1, -2, 0)])

\* test_board1 of a placement of the current piece
TestBoard1(placed) == clear_lines_from_board(ScratchPlace(board, placed))

\* The next_score values of the inner double loop on test_board1
NextScores(b, next_kind) ==
    LET ps == NextPlacements(b, next_kind) IN
    {evaluate_board(clear_lines_from_board(ScratchPlace(b, ps[i])), next_kind) :
        i \in 1..Len(ps)}

\* combined_score of a placement of the current piece, times 10000:
\* current_score alone when best_next_score is still float('-inf')
CombinedScore(placed, cur_kind, next_kind) ==
    LET test_board1 == TestBoard1(placed)
        current_score == evaluate_board(test_board1, cur_kind)
        next_scores == NextScores(test_board1, next_kind)
    IN  IF next_scores = {} THEN 10 * current_score
        ELSE 6 * current_score + 4 * MaxOf(next_scores)

\* get_best_move returned None
NoMove == [rotation |-> -1, x |-> -9]

\* if combined_score > best_overall_score: the update of the running best
Better(combined, best) == combined > best

\* The double loop's running best after the placements from the i-th on
RECURSIVE BestFrom(_, _, _, _, _)
BestFrom(scored, i, found, best_score, best_move) ==
    IF i > Len(scored) THEN best_move
    ELSE IF ~found \/ Better(scored[i].combined, best_score)
         THEN BestFrom(scored, i + 1, TRUE, scored[i].combined,
                       [rotation |-> scored[i].rotation, x |-> scored[i].x])
         ELSE BestFrom(scored, i + 1, found, best_score, best_move)

\* The placements the search evaluates with their combined scores
ScoredPlacements ==
    LET ps == CurrentPlacements(cur.type) IN
    [i \in 1..Len(ps) |->
        [rotation |-> ps[i].rotation, x |-> ps[i].x, y |-> ps[i].y,
         combined |-> CombinedScore(ps[i], cur.type, nxt.type)]]

\* The search with best_overall_score starting at 0, not at float('-inf')
get_best_move_from_zero == BestFrom(ScoredPlacements, 1, TRUE, 0, NoMove)

\* TetrisAI.get_best_move (use_lookahead=True)
get_best_move == BestFrom(ScoredPlacements, 1, FALSE, 0, NoMove)

----------------------------------------------------------------------------
(* TetrisAI.execute_move. *)

\* while current_piece.rotation != rotation: self.game.rotate().  The loop is
\* deterministic in the piece, so it never exits exactly when it meets a
\* piece state a second time.
RECURSIVE RotateLoop(_, _, _)
RotateLoop(p, rotation, seen) ==
    IF p.rotation = rotation THEN [exits |-> TRUE, piece |-> p]
    ELSE IF p \in seen THEN [exits |-> FALSE, piece |-> p]
    ELSE RotateLoop(RotatePiece(p), rotation, seen \cup {p})

\* while x < target_x and valid_position(offset_x=1): x += 1
RECURSIVE SlideRight(_, _)
SlideRight(p, target_x) ==
    IF p.x < target_x /\ valid_position(p, 1, 0)
    THEN SlideRight([p EXCEPT !.x = p.x + 1], target_x) ELSE p

\* while x > target_x and valid_position(offset_x=-1): x -= 1
RECURSIVE SlideLeft(_, _)
SlideLeft(p, target_x) ==
    IF p.x > target_x /\ valid_position(p, -1, 0)
    THEN SlideLeft([p EXCEPT !.x = p.x - 1], target_x) ELSE p

\* The piece put on the target column without a test
SlideToTarget(p, target_x) == [p EXCEPT !.x = target_x]

\* The piece execute_move leaves when its rotate loop has exited with p
Slide(p, target_x) == SlideLeft(SlideRight(p, target_x), target_x)

\* execute_move(move) as a step of the game: it either returns (pc stays
\* "loop") or stays in its rotate loop for ever (pc = "execute_move")
execute_move(move) ==
    LET r == RotateLoop(cur, move.rotation, {}) IN
    IF r.exits
    THEN /\ cur' = Slide(r.piece, move.x)
         /\ fall_speed' = AiDropSpeed
         /\ since_fall' = SinceCap
         /\ pc' = "loop"
    ELSE /\ cur' = r.piece
         /\ UNCHANGED <<fall_speed, since_fall>>
         /\ pc' = "execute_move"

----------------------------------------------------------------------------
(* The handlers of play_game's loop, one action each.  K is the set of     *)
(* kinds random.choice may draw.                                           *)

\* TetrisGame.__init__ on a w x h board, then play_game's set-up
InitGame(w, h, K, modes) ==
    /\ width = w
    /\ height = h
    /\ board = EmptyBoard(w, h)
    /\ score = 0
    /\ level = 1
    /\ lines_cleared = 0
    /\ game_over = FALSE
    /\ paused = FALSE
    /\ cur \in {spawn_piece(k, w) : k \in K}
    /\ nxt \in {spawn_piece(k, w) : k \in K}
    /\ ai_mode \in modes
    /\ fall_speed = IF ai_mode THEN AiFallSpeed ELSE 800
    /\ since_fall = 0
    /\ ai_move_made = FALSE
    /\ pc = "loop"
    /\ last_op = "init"
    /\ last_move = NoMove
    /\ locks = 0
    /\ num_lines = 0

\* The dimension test reading the width only
ValidDimensionsWidthOnly(w, h) == ~(w < 4)

\* if width < 4 or height < 4: raise ValueError(...)
ValidDimensions(w, h) == ~(w < 4 \/ h < 4)

\* No piece: the game object does not exist
NoPiece == [type |-> "none", rotation |-> 0, x |-> 0, y |-> 0]

\* play_game is about to call TetrisGame(width=w, height=h): pc = "new", the
\* variables width and height hold the arguments of the call, and no field
\* of the game exists yet
BeforeConstruct(w, h) ==
    /\ width = w
    /\ height = h
    /\ board = <<>>
    /\ score = 0
    /\ level = 0
    /\ lines_cleared = 0
    /\ game_over = FALSE
    /\ paused = FALSE
    /\ cur = NoPiece
    /\ nxt = NoPiece
    /\ ai_mode = FALSE
    /\ fall_speed = 0
    /\ since_fall = 0
    /\ ai_move_made = FALSE
    /\ pc = "new"
    /\ last_op = "new"
    /\ last_move = NoMove
    /\ locks = 0
    /\ num_lines = 0

\* TetrisGame.__init__(width, height) called by play_game with AI mode off:
\* it raises ValueError before its first assignment, and play_game returns
\* (pc = "ValueError"), or it builds the game and play_game enters its loop
Construct(K) ==
    /\ pc = "new"
    /\ IF ~ValidDimensions(width, height)
       THEN /\ pc' = "ValueError"
            /\ last_op' = "init_error"
            /\ UNCHANGED <<board, score, level, lines_cleared, game_over, paused,
                           cur, nxt, fall_speed>>
       ELSE /\ board' = EmptyBoard(width, height)
            /\ score' = 0
            /\ level' = 1
            /\ lines_cleared' = 0
            /\ game_over' = FALSE
            /\ paused' = FALSE
            /\ cur' \in {spawn_piece(k, width) : k \in K}
            /\ nxt' \in {spawn_piece(k, width) : k \in K}
            /\ fall_speed' = 800
            /\ pc' = "loop"
            /\ last_op' = "init"
    /\ UNCHANGED <<width, height, since_fall, ai_mode, ai_move_made, last_move,
                   locks, num_lines>>

\* if not ai_mode and not game.game_over and not game.paused
ManualKeys == pc = "loop" /\ ~ai_mode /\ ~game_over /\ ~paused

\* The piece shifted without the test of the shifted position
MovePieceUnchecked(p, dx) == [p EXCEPT !.x = p.x + dx]

\* TetrisGame.move_left / move_right's effect on the piece
MovePiece(p, dx) == IF valid_position(p, dx, 0) THEN [p EXCEPT !.x = p.x + dx] ELSE p

\* key 'a' or left arrow
MoveLeftKey ==
    /\ ManualKeys
    /\ cur' = MovePiece(cur, -1)
    /\ last_op' = "move_left"
    /\ UNCHANGED <<width, height, board, nxt, score, level, lines_cleared, game_over,
                   paused, fall_speed, since_fall, ai_mode, ai_move_made, pc,
                   last_move, locks, num_lines>>

\* key 'd' or right arrow
MoveRightKey ==
    /\ ManualKeys
    /\ cur' = MovePiece(cur, 1)
    /\ last_op' = "move_right"
    /\ UNCHANGED <<width, height, board, nxt, score, level, lines_cleared, game_over,
                   paused, fall_speed, since_fall, ai_mode, ai_move_made, pc,
                   last_move, locks, num_lines>>

\* key 'w' or up arrow: game.rotate()
RotateKey ==
    /\ ManualKeys
    /\ cur' = RotatePiece(cur)
    /\ last_op' = RotateBranch(cur)
    /\ UNCHANGED <<width, height, board, nxt, score, level, lines_cleared, game_over,
                   paused, fall_speed, since_fall, ai_mode, ai_move_made, pc,
                   last_move, locks, num_lines>>

\* key 's' or down arrow: game.move_down(); game.last_fall_time = time.time()
SoftDropKey ==
    /\ ManualKeys
    /\ cur' = MoveDownPiece(cur)
    /\ since_fall' = 0
    /\ last_op' = "soft_drop"
    /\ UNCHANGED <<width, height, board, nxt, score, level, lines_cleared, game_over,
                   paused, fall_speed, ai_mode, ai_move_made, pc, last_move, locks, num_lines>>

\* key ' ': game.hard_drop().  The locks counter stops at cap.
HardDropKey(K, cap) ==
    /\ ManualKeys
    /\ \E kind \in K : \E p \in {DropPiece(cur)} : LockPiece(p, kind, cap, FALSE)
    /\ last_op' = "hard_drop"
    /\ UNCHANGED <<width, height, paused, ai_mode, ai_move_made, pc, last_move>>

\* The pause key restarting the fall timer as well
PauseKeyRestartsTimer ==
    /\ pc = "loop"
    /\ paused' = ~paused
    /\ since_fall' = 0
    /\ last_op' = "pause"
    /\ UNCHANGED <<width, height, board, cur, nxt, score, level, lines_cleared,
                   game_over, fall_speed, ai_mode, ai_move_made, pc,
                   last_move, locks, num_lines>>

\* key 'p': game.paused = not game.paused
PauseKey ==
    /\ pc = "loop"
    /\ paused' = ~paused
    /\ last_op' = "pause"
    /\ UNCHANGED <<width, height, board, cur, nxt, score, level, lines_cleared,
                   game_over, fall_speed, since_fall, ai_mode, ai_move_made, pc,
                   last_move, locks, num_lines>>

\* key 'i': toggle AI mode and adjust the fall speed
ToggleAiKey ==
    /\ pc = "loop"
    /\ ai_mode' = ~ai_mode
    /\ ai_move_made' = FALSE
    /\ fall_speed' = IF ~ai_mode THEN AiFallSpeed ELSE LevelFallSpeed(level)
    /\ last_op' = "toggle_ai"
    /\ last_move' = NoMove
    /\ UNCHANGED <<width, height, board, cur, nxt, score, level, lines_cleared,
                   game_over, paused, since_fall, pc, locks, num_lines>>

\* The AI logic of the loop: get_best_move, then execute_move
AiStep ==
    /\ pc = "loop"
    /\ ai_mode /\ ~game_over /\ ~paused
    /\ ~ai_move_made /\ cur.y >= 1
    /\ LET best_move == get_best_move IN
       /\ last_move' = best_move
       /\ IF best_move # NoMove
          THEN /\ execute_move(best_move)
               /\ ai_move_made' = (pc' = "loop")
               /\ last_op' = "ai_move"
          ELSE /\ UNCHANGED <<cur, fall_speed, since_fall, pc, ai_move_made>>
               /\ last_op' = "ai_none"
    /\ UNCHANGED <<width, height, board, nxt, score, level, lines_cleared, game_over,
                   paused, ai_mode, locks, num_lines>>

\* The search run on the live current piece instead of a scratch piece: the
\* piece is left where the last candidate came to rest
SearchOnLivePiece ==
    /\ cur' = IF Len(CurrentPlacements(cur.type)) = 0 THEN [cur EXCEPT !.y = 0]
              ELSE CurrentPlacements(cur.type)[Len(CurrentPlacements(cur.type))]
    /\ UNCHANGED <<width, height, board, nxt, score, level, lines_cleared, game_over,
                   paused, fall_speed, since_fall, ai_mode, ai_move_made>>

\* What _get_best_move_with_2piece_lookahead assigns of the game: nothing.
\* test_piece and test_piece2 are new Tetromino objects, test_board1 and
\* test_board2 copies of the rows; the game is only read
SearchEffects ==
    UNCHANGED <<width, height, board, cur, nxt, score, level, lines_cleared, game_over,
                paused, fall_speed, since_fall, ai_mode, ai_move_made>>

\* ai.get_best_move() called on the game as it is
BestMoveCall ==
    /\ pc = "loop"
    /\ last_move' = get_best_move
    /\ last_op' = "best_move"
    /\ SearchEffects
    /\ UNCHANGED <<pc, locks, num_lines>>

\* The fall is due only after more than the fall interval
FallDueStrict == since_fall > fall_speed

\* if current_time - self.last_fall_time >= self.fall_speed
FallDue == since_fall >= fall_speed

\* update returning early only when the game is over
UpdateIdleGameOverOnly == game_over

\* if self.game_over or self.paused: return
UpdateIdle == game_over \/ paused

\* game.update() as the loop calls it, with the loop's check of whether the
\* piece changed.  No lock is taken once cap locks were.
Update(K, cap) ==
    /\ pc = "loop"
    /\ IF UpdateIdle
       THEN /\ last_op' = "update_idle"
            /\ UNCHANGED <<board, cur, nxt, score, level, lines_cleared, game_over,
                           fall_speed, since_fall, ai_move_made, last_move, locks, num_lines>>
       ELSE IF ~FallDue
       THEN /\ last_op' = "update_wait"
            /\ UNCHANGED <<board, cur, nxt, score, level, lines_cleared, game_over,
                           fall_speed, since_fall, ai_move_made, last_move, locks, num_lines>>
       ELSE IF valid_position(cur, 0, 1)
       THEN /\ cur' = MoveDownPiece(cur)
            /\ since_fall' = 0
            /\ last_op' = "update_fall"
            /\ UNCHANGED <<board, nxt, score, level, lines_cleared, game_over,
                           fall_speed, ai_move_made, last_move, locks, num_lines>>
       ELSE /\ locks < cap
            /\ \E kind \in K : LockPiece(cur, kind, cap, ai_mode)
            /\ ai_move_made' = FALSE
            /\ last_move' = NoMove
            /\ last_op' = "update_lock"
    /\ UNCHANGED <<width, height, paused, ai_mode, pc>>

\* Time passes: since_fall reaches a later one of the thresholds `points`
Tick(points) ==
    /\ pc = "loop"
    /\ \E t \in points : t > since_fall /\ since_fall' = t
    /\ last_op' = "tick"
    /\ UNCHANGED <<width, height, board, cur, nxt, score, level, lines_cleared,
                   game_over, paused, fall_speed, ai_mode, ai_move_made, pc,
                   last_move, locks, num_lines>>

----------------------------------------------------------------------------
(* Manual play: the keys of play_game with AI mode off, update and time. *)

\* The kinds random.choice draws in the game specifications
Kinds == {"I", "O"}

Init == InitGame(Width, Height, Kinds, {FALSE})

Next ==
    \/ MoveLeftKey
    \/ MoveRightKey
    \/ RotateKey
    \/ SoftDropKey
    \/ (locks < MaxLocks /\ HardDropKey(Kinds, MaxLocks))
    \/ PauseKey
    \/ Update(Kinds, MaxLocks)
    \/ Tick(ManualPoints(level))

Spec == Init /\ [][Next]_vars

\* The piece p with its rotation index advanced by one, cyclically
Advanced(p) == [p EXCEPT !.rotation = (p.rotation + 1) % Len(SHAPES[p.type])]

\* p moved by (dx, dy)
Shifted(p, dx, dy) == [p EXCEPT !.x = p.x + dx, !.y = p.y + dy]

\* What rotate is to leave of piece p
Rotated(p) ==
    LET q == Advanced(p) IN
    IF valid_position(q, 0, 0) THEN q
    ELSE IF valid_position(q, -1, 0) THEN Shifted(q, -1, 0)
    ELSE IF valid_position(q, 1, 0) THEN Shifted(q, 1, 0)
    ELSE IF valid_position(q, 0, -1) THEN Shifted(q, 0, -1)
    ELSE IF valid_position(q, -2, 0) THEN Shifted(q, -2, 0)
    ELSE IF valid_position(q, 2, 0) THEN Shifted(q, 2, 0)
    ELSE p

\* C6: rotate advances the rotation index by one cyclically; if the rotated
\* position is illegal it tries (-1,0), (+1,0), (0,-1), (-2,0), (+2,0) in
\* that order and applies the first legal one; if none is legal the piece
\* is exactly what it was before the call.
C6_RotateKicks ==
    [][last_op' \in {"rotate", "rotate_kick", "rotate_revert"} => cur' = Rotated(cur)]_vars

\* The case of C6: a rotation was kicked to the right, past the column
\* where it was illegal
C6_Kicked == last_op = "rotate_kick" /\ cur.rotation = 1 /\ cur.x > 0

\* Board b with the cells of piece p that lie on the board occupied
Committed(b, p) ==
    LET cells == get_cells(p) IN
    [r \in 1..Len(b) |->
        [c \in 1..Len(b[1]) |-> IF <<r - 1, c - 1>> \in cells THEN 1 ELSE b[r][c]]]

\* Row `row` has no empty cell
Complete(row) == \A c \in DOMAIN row : row[c] # 0

\* Board b without its complete rows, as many empty rows put on top
WithoutComplete(b) ==
    LET kept == SelectSeq(b, LAMBDA row : ~Complete(row)) IN
    [i \in 1..(Len(b) - Len(kept)) |-> [c \in 1..Len(b[1]) |-> 0]] \o kept

\* The piece a lock step commits: hard_drop's at its lowest legal row,
\* update's where it is
Locking == IF last_op' = "hard_drop" THEN DropPiece(cur) ELSE cur

\* C7: every lock commits the current piece, clears the full rows and
\* updates the counters, then makes the piece shown as next the current
\* piece (same kind, rotation 0, spawn position) and generates a fresh next
\* piece, and only then checks the new current piece's legality to decide
\* game_over.
C7_LockOrder ==
    [][last_op' \in {"hard_drop", "update_lock"} =>
        /\ board' = WithoutComplete(Committed(board, Locking))
        /\ lines_cleared' = lines_cleared + num_lines'
        /\ cur' = nxt
        /\ cur'.rotation = 0 /\ cur'.y = -2
        /\ cur'.x = (width - Len(SHAPES[cur'.type][1][1])) \div 2
        /\ nxt' \in {spawn_piece(k, width) : k \in AllKinds}
        /\ game_over' = (game_over \/ ~ValidOn(board', width, height, cur', 0, 0))]_vars

\* The case of C7: a lock has cleared a row and promoted the next piece
C7_Locked == last_op \in {"hard_drop", "update_lock"} /\ num_lines > 0 /\ locks > 0

\* C9: while playing, an update call made when the time since the last
\* descent is at least the fall interval moves the current piece down
\* exactly one row if that is legal and otherwise locks it; an update call
\* made earlier changes nothing.
C9_UpdateFalls ==
    [][(last_op' \in {"update_wait", "update_fall", "update_lock"}
            /\ ~game_over /\ ~paused) =>
        IF since_fall >= fall_speed
        THEN IF valid_position(cur, 0, 1)
             THEN /\ cur' = Shifted(cur, 0, 1)
                  /\ UNCHANGED <<board, nxt, score, level, lines_cleared, game_over>>
             ELSE /\ board' = WithoutComplete(Committed(board, cur))
                  /\ cur' = nxt
                  /\ locks' = locks + 1
        ELSE UNCHANGED <<board, cur, nxt, score, level, lines_cleared, game_over,
                         fall_speed, since_fall, locks>>]_vars

\* The case of C9: an update found the piece unable to descend and locked it
C9_UpdateLocked == last_op = "update_lock" /\ locks > 0 /\ board # EmptyBoard(width, height)

----------------------------------------------------------------------------
(* The loop with the AI: AI mode can be switched on and off; with AI mode  *)
(* off the player moves the piece sideways and hard-drops it.              *)

\* The kinds random.choice draws in the specification with the AI
KindsAI == {"O", "L"}

InitAI == InitGame(Width, Height, KindsAI, BOOLEAN)

NextAI ==
    \/ ToggleAiKey
    \/ AiStep
    \/ MoveLeftKey
    \/ MoveRightKey
    \/ (locks < MaxLocks /\ HardDropKey(KindsAI, MaxLocks))
    \/ Update(KindsAI, MaxLocks)
    \/ Tick(AllPoints(level))

SpecAI == InitAI /\ [][NextAI]_vars

\* play_game is about to call get_best_move (tetris.py line 540)
AiCalls ==
    /\ pc = "loop"
    /\ ai_mode /\ ~game_over /\ ~paused
    /\ ~ai_move_made /\ cur.y >= 1

\* The pieces of `kind` at row y = 0, in any rotation state and at any anchor
\* column of -2..width+1, that are legal on board b
LegalAtTop(b, kind) ==
    {p \in [type : {kind}, rotation : 0..(NumRotations(kind) - 1),
            x : (-2)..(Len(b[1]) + 1), y : {0}] : is_valid_on_board(p, b, 0, 0)}

\* Every piece of LegalAtTop dropped straight down to its lowest legal row
Candidates(b, kind) == {DropOn(b, p) : p \in LegalAtTop(b, kind)}

\* The placements of the current piece that best_move scores
Evaluated == {CurrentPlacements(cur.type)[i] : i \in 1..Len(CurrentPlacements(cur.type))}

\* C2: for each rotation index of the current piece, best_move evaluates as
\* a candidate every anchor column of -2..width+1 at which the piece is
\* legal at row 0 of the live board, and only those, each dropped straight
\* down from row 0 to its lowest legal row.
C2_EvaluatesEveryLegalColumn == AiCalls => Evaluated = Candidates(board, cur.type)

\* The case of C2: best_move is called and has scored a candidate; a column
\* legal at row 0 in the same rotation was left out
C2_LegalColumnSkipped ==
    /\ last_op = "ai_move"
    /\ \E p \in Evaluated : \E q \in Candidates(board, cur.type) :
           q.rotation = p.rotation /\ q \notin Evaluated

\* The board a candidate leaves: the piece written into a copy of b, full
\* rows removed
BoardWith(b, p) == clear_lines_from_board(ScratchPlace(b, p))

\* The combined score of candidate p (times 10000): 0.6 * ply1 +
\* 0.4 * the best ply-2 score, or ply1 alone when the next piece has no
\* legal placement on the scratch board
Combined(p) ==
    LET b1 == BoardWith(board, p)
        ply1 == evaluate_board(b1, cur.type)
        ply2 == {evaluate_board(BoardWith(b1, q), nxt.type) : q \in Candidates(b1, nxt.type)}
    IN  IF ply2 = {} THEN 10 * ply1 ELSE 6 * ply1 + 4 * MaxOf(ply2)

\* p comes before q in the order of the double loop: lowest rotation index,
\* then lowest column
Earlier(p, q) == p.rotation < q.rotation \/ (p.rotation = q.rotation /\ p.x < q.x)

\* The candidate with the highest combined score, the earliest among equals
HighestScoring ==
    LET scored == [p \in Candidates(board, cur.type) |-> Combined(p)] IN
    CHOOSE p \in DOMAIN scored :
        \A q \in DOMAIN scored \ {p} :
            scored[p] > scored[q] \/ (scored[p] = scored[q] /\ Earlier(p, q))

\* C8: best_move returns the candidate (rotation, column) with the highest
\* combined score 0.6*ply1 + 0.4*(best ply-2 score), or ply1 alone when the
\* next piece has no legal placement, among the candidates; among equal
\* scores the lowest rotation index, then the lowest column.
C8_ReturnsHighestScoring ==
    (AiCalls /\ Candidates(board, cur.type) # {}) =>
        get_best_move = [rotation |-> HighestScoring.rotation, x |-> HighestScoring.x]

\* The case of C8: the AI has executed the move best_move returned, which is
\* not the highest-scoring candidate
C8_LowerScoringReturned ==
    /\ last_op = "ai_move"
    /\ Candidates(board, cur.type) # {}
    /\ last_move # [rotation |-> HighestScoring.rotation, x |-> HighestScoring.x]

----------------------------------------------------------------------------
(* Hard drops only: a new game in which the player presses nothing but the *)
(* space bar, for ever.  Every kind can be drawn.  The board is one column *)
(* wider than the widest piece, so no row is ever completed and the stack  *)
(* only grows.                                                             *)

DropWidth == 5
DropHeight == 4

InitDrop == InitGame(DropWidth, DropHeight, AllKinds, {FALSE})

\* The space bar; the locks counter is not used
DropKey == HardDropKey(AllKinds, 0)

NextDrop == DropKey

\* The player keeps pressing the key as long as the game takes it
SpecDrop == InitDrop /\ [][NextDrop]_vars /\ WF_vars(DropKey)

\* Some occupied cell in the top row
StackAtTop == \E c \in 1..width : board[1][c] # 0

\* C1: from a new game, if the player only hard-drops, the stack reaches the
\* top, the promoted piece is found illegal at its spawn position and
\* game_over eventually becomes true.
C1_GameEnds == <>game_over

\* The case of C1: the stack is at the top and the piece just promoted
\* cannot descend from its spawn position, yet the game goes on
C1_StackAtTopStillPlaying ==
    /\ last_op = "hard_drop"
    /\ StackAtTop
    /\ ~valid_position(cur, 0, 1)
    /\ ~game_over

----------------------------------------------------------------------------
(* execute_move called with any move: the game in AI mode, the piece       *)
(* falling and locking between the calls.                                  *)

\* Largest rotation index passed to execute_move
MaxRotation == 2
\* Locks after which no further lock is taken in this specification
MaxExecLocks == 1

InitExec == InitGame(Width, Height, Kinds, {TRUE})

\* ai.execute_move(move) for any rotation index of 0..MaxRotation and any
\* column of -2..width+1
ExecuteMoveCall ==
    /\ pc = "loop"
    /\ ~game_over /\ ~paused
    /\ \E move \in [rotation : 0..MaxRotation, x : (-2)..(width + 1)] :
          /\ execute_move(move)
          /\ last_move' = move
    /\ last_op' = "execute_move"
    /\ UNCHANGED <<width, height, board, nxt, score, level, lines_cleared, game_over,
                   paused, ai_mode, ai_move_made, locks, num_lines>>

NextExec ==
    \/ ExecuteMoveCall
    \/ Update(Kinds, MaxExecLocks)
    \/ Tick(AllPoints(level))

SpecExec == InitExec /\ [][NextExec]_vars

\* C5: execute_move absorbs every input: for any move (rotation, column),
\* including a rotation index outside the piece's rotation states and a
\* column outside the board, the call returns and leaves the piece in a
\* legal position.
C5_ExecuteMoveReturns ==
    last_op = "execute_move" => (pc = "loop" /\ valid_position(cur, 0, 0))

\* The case of C5: a call with a rotation index the piece does not have is
\* still inside execute_move's rotate loop
C5_StuckInRotateLoop ==
    /\ pc = "execute_move"
    /\ last_move.rotation >= NumRotations(cur.type)
    /\ valid_position(cur, 0, 0)

----------------------------------------------------------------------------
(* clear_lines as a function of the game it is called on: the game is      *)
(* inside lock_piece, place_piece has returned and clear_lines is called.  *)
(* The board is any stack of the rows of RowPatterns whose full rows lie   *)
(* within the four rows a piece spans; the counters are those of a game    *)
(* that has cleared its rows one at a time.                                *)

\* Highest level the game is in when clear_lines is called
MaxLevel == 3

\* The rows boards are made of: empty, full, one gap on the left, one gap
\* on the right, one cell on the left
RowPatterns(w) ==
    { [c \in 1..w |-> 0],
      [c \in 1..w |-> 1],
      [c \in 1..w |-> IF c = 1 THEN 0 ELSE 1],
      [c \in 1..w |-> IF c = w THEN 0 ELSE 1],
      [c \in 1..w |-> IF c = 1 THEN 1 ELSE 0] }

\* The score after n rows cleared one at a time from a new game
RECURSIVE SinglesScore(_)
SinglesScore(n) == IF n = 0 THEN 0 ELSE SinglesScore(n - 1) + 100 * ((n - 1) \div 10 + 1)

InitClear ==
    /\ width = Width
    /\ height = Height
    /\ board \in [1..Height -> RowPatterns(Width)]
    /\ \A r1, r2 \in 1..Height : (RowFull(board[r1]) /\ RowFull(board[r2])) => r2 - r1 < 4
    /\ level \in 1..MaxLevel
    /\ lines_cleared \in {10 * (level - 1), 10 * (level - 1) + 9}
    /\ score = SinglesScore(lines_cleared)
    /\ fall_speed = LevelFallSpeed(level)
    /\ game_over = FALSE
    /\ paused = FALSE
    /\ cur = spawn_piece("O", Width)
    /\ nxt = spawn_piece("O", Width)
    /\ ai_mode = FALSE
    /\ since_fall = 0
    /\ ai_move_made = FALSE
    /\ pc = "loop"
    /\ last_op = "place_piece"
    /\ last_move = NoMove
    /\ locks = 0
    /\ num_lines = 0

\* self.clear_lines()
ClearLinesCall ==
    /\ last_op = "place_piece"
    /\ \E c \in {clear_lines(board)} :
          /\ board' = c.board
          /\ num_lines' = c.num_lines
          /\ score' = c.score
          /\ lines_cleared' = c.lines_cleared
          /\ level' = c.level
          /\ fall_speed' = c.fall_speed
    /\ last_op' = "clear_lines"
    /\ UNCHANGED <<width, height, cur, nxt, game_over, paused, since_fall, ai_mode,
                   ai_move_made, pc, last_move, locks>>

NextClear == ClearLinesCall

SpecClear == InitClear /\ [][NextClear]_vars

\* The number of rows of b without an empty cell
CompleteRows(b) == Cardinality({r \in 1..Len(b) : Complete(b[r])})

\* C3: a lock that completes n rows, n in 1..4, increases the score by
\* exactly 100, 300, 500 or 800, multiplied by the level in force before
\* the lock; a lock that completes no row leaves score, level and lines
\* cleared unchanged.
C3_Scoring ==
    [][last_op' = "clear_lines" =>
        LET n == CompleteRows(board) IN
        /\ n = 0 => UNCHANGED <<score, level, lines_cleared>>
        /\ n = 1 => score' = score + 100 * level
        /\ n = 2 => score' = score + 300 * level
        /\ n = 3 => score' = score + 500 * level
        /\ n = 4 => score' = score + 800 * level]_vars

\* The case of C3: four rows were completed at level 2
C3_TetrisAtLevelTwo ==
    /\ last_op = "clear_lines"
    /\ num_lines = 4
    /\ lines_cleared = 23
    /\ score = SinglesScore(19) + 1600

\* C10: for every board, clear_lines removes exactly the rows without an
\* empty cell, inserts as many empty rows at the top, keeps the other rows
\* in their order, returns the number of rows removed and leaves a board of
\* height rows of width cells.
C10_ClearLines ==
    [][last_op' = "clear_lines" =>
        LET kept == SelectSeq(board, LAMBDA row : \E c \in 1..width : row[c] = 0)
            removed == Len(board) - Len(kept)
        IN  /\ removed = CompleteRows(board)
            /\ num_lines' = removed
            /\ Len(board') = height
            /\ \A r \in 1..height : Len(board'[r]) = width
            /\ \A r \in 1..removed : \A c \in 1..width : board'[r][c] = 0
            /\ \A i \in 1..Len(kept) : board'[removed + i] = kept[i]]_vars

\* The case of C10: two rows were removed from between rows that stay, and
\* the rows that stay differ from one another
C10_TwoRemoved ==
    /\ last_op = "clear_lines"
    /\ num_lines = 2
    /\ board[height] # board[height - 1]
    /\ \E c \in 1..width : board[height][c] # 0
    /\ \E c \in 1..width : board[height - 1][c] # 0

----------------------------------------------------------------------------
(* The fall speed over a level change: only I pieces are drawn, which      *)
(* complete a row of the board each time they are dropped flat, AI mode    *)
(* is switched on and off, and the player hard-drops.                      *)

\* Locks after which no further lock is taken in this specification
MaxSpeedLocks == 24

KindsSpeed == {"I"}

InitSpeed == InitGame(Width, Height, KindsSpeed, BOOLEAN)

NextSpeed ==
    \/ ToggleAiKey
    \/ AiStep
    \/ (locks < MaxSpeedLocks /\ HardDropKey(KindsSpeed, MaxSpeedLocks))
    \/ Update(KindsSpeed, MaxSpeedLocks)
    \/ Tick(AllPoints(level))

SpecSpeed == InitSpeed /\ [][NextSpeed]_vars

\* max(0.1, 0.8 - (level - 1) * 0.05) seconds, in ms
FallInterval(lv) == IF 800 - (lv - 1) * 50 >= 100 THEN 800 - (lv - 1) * 50 ELSE 100

\* C4 as stated: in every reachable state of a game, including while the AI
\* is playing and after execute_move, the fall interval is
\* max(0.1, 0.8 - (level-1)*0.05) seconds.
C4_FallIntervalAlways == fall_speed = FallInterval(level)

\* C4, amended: in every reachable state in which AI mode is off, the fall
\* interval is max(0.1, 0.8 - (level-1)*0.05) seconds for the current level.
C4_FallIntervalManual == ~ai_mode => fall_speed = FallInterval(level)

\* The case of C4: AI mode was just switched off at level 2, after the AI
\* had set its own fall speed
C4_RestoredAtLevelTwo ==
    /\ last_op = "toggle_ai"
    /\ ~ai_mode
    /\ level = 2
    /\ fall_speed = 750

----------------------------------------------------------------------------
(* Claims on the manual game (Spec), continued. *)

\* The <<row, column>> offsets of the 1 entries of every rotation state of
\* every kind, read off the shape table
OccupiedOffsets ==
    [k \in DOMAIN SHAPES |->
        [i \in DOMAIN SHAPES[k] |->
            {<<r - 1, c - 1>> : <<r, c>> \in
                {q \in (DOMAIN SHAPES[k][i]) \X (DOMAIN SHAPES[k][i][1]) :
                    SHAPES[k][i][q[1]][q[2]] = 1}}]]

\* The <<row, column>> cells piece p occupies when moved by (dx, dy)
CellsAt(p, dx, dy) ==
    {<<p.y + dy + o[1], p.x + dx + o[2]>> : o \in OccupiedOffsets[p.type][p.rotation + 1]}

\* Some cell is outside the side walls or below the floor
OffBoard(cells) == \E cell \in cells : cell[2] < 0 \/ cell[2] >= width \/ cell[1] >= height

\* Some cell at a row >= 0 lies on an occupied cell of the board
OnOccupied(cells) ==
    \E cell \in cells :
        /\ cell[1] >= 0 /\ cell[1] < height /\ cell[2] >= 0 /\ cell[2] < width
        /\ board[cell[1] + 1][cell[2] + 1] # 0

\* The offsets the game asks valid_position about: none, one column left or
\* right, one row down, and the wall kicks
Offsets == {<<0, 0>>, <<-1, 0>>, <<1, 0>>, <<0, 1>>, <<0, -1>>, <<-2, 0>>, <<2, 0>>}

\* C11: valid_position(piece, dx, dy) is false exactly when some cell of the
\* piece at the offset position has column < 0, column >= width, row >=
\* height, or lies on an occupied board cell at row >= 0; cells at rows < 0
\* are subject to the column bounds only.
C11_ValidPosition ==
    \A d \in Offsets :
        LET cells == CellsAt(cur, d[1], d[2]) IN
        valid_position(cur, d[1], d[2]) = ~(OffBoard(cells) \/ OnOccupied(cells))

\* The case of C11: the piece was moved sideways while it straddles the top
\* edge, with a cell above the board in a column whose bottom row is
\* occupied, and the step further is rejected by an occupied cell alone
C11_AboveBoardBlockedBelow ==
    /\ last_op \in {"move_left", "move_right"}
    /\ valid_position(cur, 0, 0)
    /\ \E cell \in CellsAt(cur, 0, 0) : cell[1] < 0 /\ board[height][cell[2] + 1] # 0
    /\ \E cell \in CellsAt(cur, 0, 0) : cell[1] >= 0
    /\ \E dx \in {-1, 1} :
          /\ ~valid_position(cur, dx, 0)
          /\ ~OffBoard(CellsAt(cur, dx, 0))

\* C13: move_left and move_right change the current piece's column by
\* exactly one when the shifted position is legal and change nothing
\* otherwise; in both cases the piece's row and rotation, the board, score,
\* level and lines cleared are unchanged.
C13_MoveSideways ==
    [][last_op' \in {"move_left", "move_right"} =>
        LET dx == IF last_op' = "move_left" THEN -1 ELSE 1
            target == CellsAt(cur, dx, 0)
        IN  /\ cur'.x = IF OffBoard(target) \/ OnOccupied(target) THEN cur.x ELSE cur.x + dx
            /\ cur'.y = cur.y
            /\ cur'.rotation = cur.rotation
            /\ cur'.type = cur.type
            /\ UNCHANGED <<board, nxt, score, level, lines_cleared>>]_vars

\* The case of C13: the piece was moved right off its spawn column and now
\* stands against an occupied cell, where a further move_right is rejected
C13_MovedUntilBlocked ==
    /\ last_op = "move_right"
    /\ cur.x > spawn_piece(cur.type, width).x
    /\ ~valid_position(cur, 1, 0)
    /\ ~OffBoard(CellsAt(cur, 1, 0))

\* Piece p is legal when moved by (dx, dy)
LegalAt(p, dx, dy) == ~(OffBoard(CellsAt(p, dx, dy)) \/ OnOccupied(CellsAt(p, dx, dy)))

\* The lowest row piece p reaches by moving straight down from where it is
LowestRow(p) ==
    LET reach == {y \in p.y..height : \A k \in p.y..y : LegalAt(p, 0, k - p.y)}
    IN  CHOOSE y \in reach : \A z \in reach : z <= y

\* C14: hard_drop commits the current piece at the lowest row reachable by
\* moving straight down from its current position (same column and
\* rotation), and performs exactly one lock.
C14_HardDrop ==
    [][last_op' = "hard_drop" =>
        /\ board' = WithoutComplete(Committed(board, [cur EXCEPT !.y = LowestRow(cur)]))
        /\ locks' = locks + 1
        /\ cur' = nxt]_vars

\* The case of C14: the second piece was hard-dropped onto the first and
\* rests on it, above the floor, with no row cleared
C14_DroppedOntoStack ==
    /\ last_op = "hard_drop"
    /\ locks = 2
    /\ num_lines = 0
    /\ \E c \in 1..width : board[2][c] # 0 /\ board[height][c] # 0

\* C15: while the game is paused or game_over, update changes nothing:
\* board, current and next piece, score, level, lines cleared, flags and
\* fall timer are all unchanged, however much time has elapsed.
C15_UpdateWhilePaused ==
    [][(last_op' \in {"update_idle", "update_wait", "update_fall", "update_lock"}
            /\ (paused \/ game_over)) =>
        UNCHANGED <<board, cur, nxt, score, level, lines_cleared, game_over, paused,
                    fall_speed, since_fall, locks>>]_vars

\* The case of C15: update was called on a paused game after the fall
\* interval had elapsed, with the piece unable to descend
C15_PausedPastFallInterval ==
    /\ last_op = "update_idle"
    /\ paused
    /\ since_fall >= fall_speed
    /\ ~valid_position(cur, 0, 1)

----------------------------------------------------------------------------
(* Claims on the game over its level changes (SpecSpeed), continued. *)

\* C12: in every reachable state, level equals floor(lines_cleared / 10) + 1
\* (level 1 at start, level 3 after 23 lines).
C12_LevelFromLines == level = lines_cleared \div 10 + 1

\* The case of C12: the lock that cleared the 23rd row, at level 3
C12_LevelThreeAfter23 ==
    /\ last_op \in {"hard_drop", "update_lock"}
    /\ num_lines > 0
    /\ lines_cleared = 23
    /\ level = 3

----------------------------------------------------------------------------
(* Claims on execute_move (SpecExec), continued. *)

\* The columns piece p reaches from its own by legal single steps toward
\* column target_x, none of them past target_x
SlideReach(p, target_x) ==
    IF target_x >= p.x
    THEN {x \in p.x..target_x : \A k \in (p.x + 1)..x : LegalAt(p, k - p.x, 0)}
    ELSE {x \in target_x..p.x : \A k \in x..(p.x - 1) : LegalAt(p, k - p.x, 0)}

\* The column of SlideReach nearest to target_x
SlideEnd(p, target_x) ==
    LET reach == SlideReach(p, target_x) IN
    CHOOSE x \in reach : \A z \in reach : Abs(target_x - x) <= Abs(target_x - z)

\* C16: during execute_move's horizontal slide the piece's column moves one
\* step at a time toward the target column, every intermediate position is
\* legal, and the column never passes the target: the slide ends at the
\* target column or at the last legal column before the first blocked step.
C16_SlideStopsAtTarget ==
    [][(last_op' = "execute_move" /\ pc' = "loop") =>
        LET start == RotateLoop(cur, last_move'.rotation, {}).piece IN
        /\ cur' = [start EXCEPT !.x = SlideEnd(start, last_move'.x)]
        /\ LegalAt(cur', 0, 0)
        /\ (cur'.x # last_move'.x =>
               ~LegalAt(cur', IF last_move'.x > cur'.x THEN 1 ELSE -1, 0))]_vars

\* The case of C16: the slide toward a column on the board stopped short of
\* it, at the last column before an occupied cell
C16_StoppedBeforeOccupied ==
    /\ last_op = "execute_move"
    /\ pc = "loop"
    /\ last_move.x \in 0..(width - 1)
    /\ cur.x # last_move.x
    /\ \E dx \in {-1, 1} :
          /\ (last_move.x - cur.x) * dx > 0
          /\ ~OffBoard(CellsAt(cur, dx, 0))
          /\ OnOccupied(CellsAt(cur, dx, 0))

----------------------------------------------------------------------------
(* Rotation: pieces of one, two and four rotation states are moved and     *)
(* rotated by the player, over the empty board and around one locked piece. *)

\* Locks after which no further lock is taken in this specification
MaxRotateLocks == 1

KindsRotate == {"O", "I", "T"}

InitRotate == InitGame(Width, Height, KindsRotate, {FALSE})

NextRotate ==
    \/ RotateKey
    \/ MoveLeftKey
    \/ MoveRightKey
    \/ SoftDropKey
    \/ (locks < MaxRotateLocks /\ HardDropKey(KindsRotate, MaxRotateLocks))

SpecRotate == InitRotate /\ [][NextRotate]_vars

\* Piece p after k consecutive rotate calls
RECURSIVE RotateTimes(_, _)
RotateTimes(p, k) == IF k = 0 THEN p ELSE RotateTimes(RotatePiece(p), k - 1)

\* Piece p where it is, turned k rotation states further
Turned(p, k) == [p EXCEPT !.rotation = (p.rotation + k) % Len(SHAPES[p.type])]

\* Every rotation state of p is legal at p's position, with no wall kick
Unobstructed(p) == \A k \in 1..Len(SHAPES[p.type]) : LegalAt(Turned(p, k), 0, 0)

\* C17: for a piece kind with n rotation states, n consecutive rotate calls
\* on a piece for which every intermediate rotated position is legal
\* without a wall kick return the piece to its original rotation index,
\* position and set of occupied cells.
C17_RotateCycle ==
    Unobstructed(cur) =>
        /\ RotateTimes(cur, Len(SHAPES[cur.type])) = cur
        /\ CellsAt(RotateTimes(cur, Len(SHAPES[cur.type])), 0, 0) = CellsAt(cur, 0, 0)
        /\ \A k \in 1..(Len(SHAPES[cur.type]) - 1) : RotateTimes(cur, k) = Turned(cur, k)

\* The case of C17: a rotate call has just brought a T piece from its fourth
\* rotation state back to its first, next to a locked piece, at a position
\* where all four states are legal
C17_FullTurn ==
    /\ last_op = "rotate"
    /\ cur.type = "T"
    /\ cur.rotation = 0
    /\ board # EmptyBoard(width, height)
    /\ cur.y >= 0
    /\ Unobstructed(cur)

----------------------------------------------------------------------------
(* Construction: play_game constructs the game with any dimensions of      *)
(* MinDimension - DimSlack .. MinDimension + DimSlack, and the player      *)
(* moves the first piece of the game that results.                         *)

\* The smallest width and height TetrisGame accepts
MinDimension == 4
\* How far below and above MinDimension the dimensions passed range
DimSlack == 1

InitNew ==
    \E w, h \in (MinDimension - DimSlack)..(MinDimension + DimSlack) : BeforeConstruct(w, h)

NextNew ==
    \/ Construct(AllKinds)
    \/ MoveLeftKey
    \/ MoveRightKey
    \/ RotateKey
    \/ SoftDropKey

SpecNew == InitNew /\ [][NextNew]_vars

\* No field of a game has been assigned
NothingCreated ==
    /\ board = <<>>
    /\ cur = NoPiece
    /\ nxt = NoPiece
    /\ level = 0
    /\ fall_speed = 0

\* C18: constructing a game with width < 4 or height < 4 fails with a
\* distinct error before any game state is created; constructing with both
\* >= 4 yields an all-empty height x width board, score 0, level 1, lines
\* cleared 0, not paused, not game_over, and a current piece in a legal
\* position.
C18_Construction ==
    /\ [][last_op' \in {"init", "init_error"} =>
            /\ (width < 4 \/ height < 4) => (pc' = "ValueError" /\ NothingCreated')
            /\ (width >= 4 /\ height >= 4) =>
                  /\ pc' = "loop"
                  /\ width' = width /\ height' = height
                  /\ Len(board') = height
                  /\ \A r \in 1..height :
                        Len(board'[r]) = width /\ \A c \in 1..width : board'[r][c] = 0
                  /\ score' = 0 /\ level' = 1 /\ lines_cleared' = 0
                  /\ ~paused' /\ ~game_over'
                  /\ LegalAt(cur, 0, 0)']_vars
    /\ [](pc = "ValueError" => NothingCreated)

\* The case of C18, the failure: a construction with a legal width and a
\* height below 4 has raised
C18_HeightTooSmall == pc = "ValueError" /\ width >= 4 /\ height < 4

\* The case of C18, the success: a game was constructed on the smallest
\* board with the widest piece, the I, as its current piece
C18_SmallestBoard ==
    /\ last_op = "init"
    /\ width = 4 /\ height = 4
    /\ cur.type = "I"

----------------------------------------------------------------------------
(* The search as a function of the game: get_best_move is called in any    *)
(* state of a game the player moves, soft-drops and hard-drops pieces in.  *)

InitSearch == InitGame(Width, Height, KindsAI, {FALSE})

NextSearch ==
    \/ BestMoveCall
    \/ MoveLeftKey
    \/ MoveRightKey
    \/ SoftDropKey
    \/ (locks < MaxLocks /\ HardDropKey(KindsAI, MaxLocks))

SpecSearch == InitSearch /\ [][NextSearch]_vars

\* The (rotation, column) pairs of the current piece that are legal at row 0
\* of the live board
LegalTop ==
    {rx \in (0..(Len(SHAPES[cur.type]) - 1)) \X ((-2)..(width + 1)) :
        LegalAt([type |-> cur.type, rotation |-> rx[1], x |-> rx[2], y |-> 0], 0, 0)}

\* C19: best_move returns none if and only if no (rotation, column) of the
\* current piece is legal at row y=0 on the live board; in every other state
\* it returns a move.
C19_NoneIffNoLegal ==
    last_op = "best_move" =>
        /\ (last_move = NoMove) <=> (LegalTop = {})
        /\ last_move # NoMove =>
               /\ last_move.rotation \in 0..(Len(SHAPES[cur.type]) - 1)
               /\ last_move.x \in (-2)..(width + 1)

\* The case of C19: the search was run with the stack so high that the
\* current piece fits nowhere at row 0, and returned none
C19_NothingFits ==
    /\ last_op = "best_move"
    /\ last_move = NoMove
    /\ LegalTop = {}

\* C20: best_move is pure with respect to the game: after it returns, the
\* live board, the current piece (kind, rotation, x, y), the next piece,
\* score, level, lines cleared, flags and fall timer are exactly as before
\* the call.
C20_SearchLeavesGame ==
    [][last_op' = "best_move" =>
        /\ board' = board
        /\ cur' = cur
        /\ nxt' = nxt
        /\ UNCHANGED <<width, height, score, level, lines_cleared, game_over, paused,
                       fall_speed, since_fall>>]_vars

\* The case of C20: the search has scored placements around a locked piece
\* and returned a move to another column than the current piece's, which is
\* still below the top where the player left it
C20_SearchedElsewhere ==
    /\ last_op = "best_move"
    /\ last_move # NoMove
    /\ last_move.x # cur.x
    /\ cur.y >= 1
    /\ board # EmptyBoard(width, height)


----------------------------------------------------------------------------
(* The whole of play_game: the player's keys in manual mode, the switch to *)
(* AI mode and back, the AI logic, update and time.  Switching modes       *)
(* mid-piece hands the AI a piece the player has moved and turned.         *)

\* The bound on locks in the specification of the whole loop
MaxPlayLocks == 1

KindsPlay == {"I", "L"}

InitPlay == InitGame(Width, Height, KindsPlay, BOOLEAN)

NextPlay ==
    \/ ToggleAiKey
    \/ AiStep
    \/ MoveLeftKey
    \/ MoveRightKey
    \/ RotateKey
    \/ SoftDropKey
    \/ (locks < MaxPlayLocks /\ HardDropKey(KindsPlay, MaxPlayLocks))
    \/ Update(KindsPlay, MaxPlayLocks)
    \/ Tick({SinceCap})

SpecPlay == InitPlay /\ [][NextPlay]_vars

\* C21: in AI mode, whenever the loop invokes the AI (current piece at row
\* y >= 1), execute_move applied to the move best_move returned terminates:
\* its rotate-until-target loop ends even when the stack blocks the rotation
\* and every wall kick.
C21_ExecuteMoveTerminates == last_op = "ai_move" => pc = "loop"

\* The case of C21: the search chose a rotation state the piece has and is
\* not in, the stack blocks the rotation and every kick at the piece's
\* place, and execute_move is still in its rotate loop
C21_RotationBlockedEveryKick ==
    /\ last_op = "ai_move"
    /\ pc = "execute_move"
    /\ last_move.rotation \in 0..(NumRotations(cur.type) - 1)
    /\ last_move.rotation # cur.rotation
    /\ cur.y >= 1
    /\ \A k \in 1..Len(KickOffsets) :
           ~valid_position(rotate_cw(cur), KickOffsets[k][1], KickOffsets[k][2])
    /\ ~valid_position(rotate_cw(cur), 0, 0)

\* The resting piece the search evaluated for the move it returned: the
\* piece in the chosen rotation state on the chosen column, dropped from row 0
Evaluated22 ==
    DropPiece([type |-> cur.type, rotation |-> last_move.rotation,
               x |-> last_move.x, y |-> 0])

\* C22: in AI mode, after execute_move(best_move()) returns, the current
\* piece has the rotation index and the anchor column the search chose, so
\* that it then falls to the resting position the search evaluated.
C22_PieceOnChosenPlacement ==
    (last_op = "ai_move" /\ pc = "loop") =>
        /\ cur.rotation = last_move.rotation
        /\ cur.x = last_move.x
        /\ DropPiece(cur) = Evaluated22

\* The case of C22: execute_move has returned with the piece turned as
\* chosen, but its slide stopped against the stack before the chosen column
C22_SlideStoppedShort ==
    /\ last_op = "ai_move"
    /\ pc = "loop"
    /\ cur.rotation = last_move.rotation
    /\ cur.x < last_move.x
    /\ ~valid_position(cur, 1, 0)
    /\ OnOccupied(CellsAt(cur, 1, 0))


----------------------------------------------------------------------------
(* Manual play with the loop running for ever: every iteration of          *)
(* play_game's loop handles at most one key and then calls update, and the *)
(* clock advances between iterations, so update and the passing of time    *)
(* are weakly fair; the player's keys are not.                             *)

\* The bound on locks in the specification of the running loop
MaxSoftLocks == 1

InitSoft == InitGame(Width, Height, Kinds, {FALSE})

\* game.update() at the end of a loop iteration
UpdateSoft == Update(Kinds, MaxSoftLocks)

\* time.time() advancing between two readings
TickSoft == Tick(ManualPoints(level))

NextSoft ==
    \/ MoveLeftKey
    \/ MoveRightKey
    \/ RotateKey
    \/ SoftDropKey
    \/ UpdateSoft
    \/ TickSoft

SpecSoft == InitSoft /\ [][NextSoft]_vars /\ WF_vars(UpdateSoft) /\ WF_vars(TickSoft)

\* C23: in manual play, a piece that can no longer move down is eventually
\* locked as long as the loop keeps calling update, whatever keys the player
\* presses in the meantime, repeated soft-drop keys included (stated of the
\* first piece of the game).
C23_LandedPieceLocks == (locks = 0 /\ ~valid_position(cur, 0, 1)) ~> (locks > 0)

\* The case of C23: the piece rests on the floor or the stack, the fall
\* timer had run up, and a soft-drop key has just set it back to zero with
\* the piece still unlocked
C23_TimerResetOnLandedPiece ==
    /\ last_op = "soft_drop"
    /\ ~valid_position(cur, 0, 1)
    /\ since_fall = 0
    /\ locks = 0
    /\ ~game_over /\ ~paused


----------------------------------------------------------------------------
(* Claims on the game under hard drops (SpecDrop), continued. *)

\* The number of occupied cells of board b
Occupied(b) ==
    Cardinality({rc \in (1..Len(b)) \X (1..Len(b[1])) : b[rc[1]][rc[2]] # 0})

\* C24: every lock conserves cells: the number of occupied board cells after
\* the lock equals the number before plus 4 minus width times the number of
\* rows cleared, also when the piece locks partly or wholly above row 0.
C24_LockConservesCells ==
    [][last_op' = "hard_drop" =>
        Occupied(board') = Occupied(board) + 4 - width * num_lines']_vars

\* The case of C24: no row has been cleared so far, a piece has just been
\* locked, and the board holds a number of cells that is not a multiple of
\* 4: a piece was locked with some of its cells above row 0
C24_CellsLostAboveTop ==
    /\ last_op = "hard_drop"
    /\ lines_cleared = 0
    /\ Occupied(board) % 4 # 0
    /\ ~game_over


----------------------------------------------------------------------------
(* spawn_piece as a function of the game it is called on: the game is      *)
(* inside lock_piece, clear_lines has returned, and the next piece is      *)
(* promoted and a new one spawned.  The board is any stack of rows with a  *)
(* gap, up to the top row, on any width from the smallest on.              *)

\* The largest board width of the specification of spawn_piece
MaxSpawnWidth == 6

\* The rows of a stack: one gap on the left, one gap on the right, one cell
\* on the left
StackRows(w) ==
    { [c \in 1..w |-> IF c = 1 THEN 0 ELSE 1],
      [c \in 1..w |-> IF c = w THEN 0 ELSE 1],
      [c \in 1..w |-> IF c = 1 THEN 1 ELSE 0] }

InitSpawn ==
    /\ width \in MinDimension..MaxSpawnWidth
    /\ height = Height
    /\ board \in [1..Height -> StackRows(width) \cup {EmptyRow(width)}]
    /\ \A r \in 1..(Height - 1) : board[r] # EmptyRow(width) => board[r + 1] # EmptyRow(width)
    /\ score = 0
    /\ level = 1
    /\ lines_cleared = 0
    /\ game_over = FALSE
    /\ paused = FALSE
    /\ cur \in {spawn_piece(k, width) : k \in AllKinds}
    /\ nxt = spawn_piece("O", width)
    /\ ai_mode = FALSE
    /\ fall_speed = LevelFallSpeed(1)
    /\ since_fall = 0
    /\ ai_move_made = FALSE
    /\ pc = "loop"
    /\ last_op = "clear_lines"
    /\ last_move = NoMove
    /\ locks = 0
    /\ num_lines = 0

\* lock_piece after clear_lines: self.current_piece = self.next_piece;
\* self.next_piece = self.spawn_piece(); the fall timer; the check of the
\* new current piece
SpawnPieceCall ==
    /\ last_op = "clear_lines"
    /\ cur' = nxt
    /\ \E kind \in AllKinds : nxt' = spawn_piece(kind, width)
    /\ since_fall' = 0
    /\ game_over' = IF ~ValidOn(board, width, height, nxt, 0, 0) THEN TRUE ELSE game_over
    /\ last_op' = "spawn_piece"
    /\ UNCHANGED <<width, height, board, score, level, lines_cleared, paused, fall_speed,
                   ai_mode, ai_move_made, pc, last_move, locks, num_lines>>

NextSpawn == SpawnPieceCall

SpecSpawn == InitSpawn /\ [][NextSpawn]_vars

\* Piece p is as spawn_piece makes it on this board, with every cell above
\* row 0 and between the side walls, and its position is legal
FreshlySpawned(p) ==
    /\ p.rotation = 0
    /\ p.x = (width - Len(SHAPES[p.type][1][1])) \div 2
    /\ p.y = -2
    /\ \A cell \in get_cells(p) : cell[1] < 0 /\ cell[2] >= 0 /\ cell[2] < width
    /\ valid_position(p, 0, 0)

\* C25: for every piece kind and every board width >= 4, a freshly spawned
\* piece (rotation 0, x = floor((width - piece width) / 2), y = -2) has all
\* its cells at rows < 0 and at columns inside [0, width), so its spawn
\* position is legal whatever the board contains.
C25_SpawnLegal == FreshlySpawned(cur) /\ FreshlySpawned(nxt) /\ ~game_over

\* The case of C25: on the narrowest board, stacked up to the top row, the
\* four-wide piece has just been spawned and spans the whole width
C25_SpawnedOverFullStack ==
    /\ last_op = "spawn_piece"
    /\ width = MinDimension
    /\ nxt.type = "I"
    /\ \A r \in 1..height : board[r] # EmptyRow(width)
    /\ {cell[2] : cell \in get_cells(nxt)} = 0..(width - 1)


----------------------------------------------------------------------------
(* Claims on the whole loop (SpecPlay), continued. *)

\* C26: in every reachable state while not game_over, after any sequence of
\* move, rotate, soft drop, hard drop, update and execute_move operations,
\* the current piece is in a legal position: all its cells are within the
\* column bounds, above the floor, and not on an occupied board cell.
C26_PieceLegal ==
    ~game_over =>
        /\ ~OffBoard(CellsAt(cur, 0, 0))
        /\ ~OnOccupied(CellsAt(cur, 0, 0))

\* The case of C26: execute_move has returned and left the piece among the
\* locked cells, an occupied cell right below it and another beside it
C26_MovedAmongStack ==
    /\ last_op = "ai_move"
    /\ pc = "loop"
    /\ ~game_over
    /\ cur.y >= 1
    /\ OnOccupied(CellsAt(cur, 0, 1))
    /\ OnOccupied(CellsAt(cur, -1, 0)) \/ OnOccupied(CellsAt(cur, 1, 0))


----------------------------------------------------------------------------
(* evaluate_board as a function of its arguments: the search has built a   *)
(* test board and calls evaluate_board(test_board, piece.type).  Here      *)
(* `board` is that test board, a stack given by its column heights with at *)
(* most one hole, at the bottom of the left column, and without a complete *)
(* row (the search clears them first); the kind of `cur` is piece_type.    *)

\* The height of the boards handed to the evaluator
EvalHeight == 10

\* The highest column of those boards
MaxStack == 7

KindsEval == {"I", "O"}

\* The board with column heights hts, the bottom cell of the left column
\* empty when hole is set
EvalBoard(hts, hole) ==
    [r \in 1..EvalHeight |->
        [c \in 1..Width |->
            IF r > EvalHeight - hts[c] /\ ~(hole /\ c = 1 /\ r = EvalHeight) THEN 1 ELSE 0]]

InitEval ==
    /\ width = Width
    /\ height = EvalHeight
    /\ \E hts \in [1..Width -> 0..MaxStack] : \E hole \in BOOLEAN :
           /\ hole => hts[1] >= 2
           /\ board = EvalBoard(hts, hole)
    /\ \A r \in 1..EvalHeight : ~RowFull(board[r])
    /\ score = 0
    /\ level = 1
    /\ lines_cleared = 0
    /\ game_over = FALSE
    /\ paused = FALSE
    /\ cur \in {spawn_piece(k, Width) : k \in KindsEval}
    /\ nxt = spawn_piece("O", Width)
    /\ ai_mode = TRUE
    /\ fall_speed = AiFallSpeed
    /\ since_fall = 0
    /\ ai_move_made = FALSE
    /\ pc = "loop"
    /\ last_op = "test_board"
    /\ last_move = NoMove
    /\ locks = 0
    /\ num_lines = 0

\* current_score = self.evaluate_board(test_board1, current_piece.type): the
\* call reads its arguments and assigns nothing of the game
EvaluateBoardCall ==
    /\ last_op = "test_board"
    /\ last_op' = "evaluate_board"
    /\ UNCHANGED <<width, height, board, cur, nxt, score, level, lines_cleared, game_over,
                   paused, fall_speed, since_fall, ai_mode, ai_move_made, pc, last_move,
                   locks, num_lines>>

NextEval == EvaluateBoardCall

SpecEval == InitEval /\ [][NextEval]_vars

\* The height of column col of board b: the rows from its topmost occupied
\* cell down to the floor
FilledSpan(b, col) ==
    LET occ == {r \in 1..Len(b) : b[r][col] # 0}
    IN  IF occ = {} THEN 0 ELSE Len(b) - MinOf(occ) + 1

\* Column col has no empty cell below its topmost occupied cell
NoHole(b, col) == \A r \in (Len(b) - FilledSpan(b, col) + 1)..Len(b) : b[r][col] # 0

\* The score of edge column col as a well, times 4: 10 at depth 3 or 4,
\* 5 minus half a point per unit beyond 4, times 1.5 when the column has no
\* hole; 0 when the column is less than 3 lower than its inward neighbour
EdgeWell(b, col) ==
    LET inward == IF col = 1 THEN 2 ELSE Len(b[1]) - 1
        depth == FilledSpan(b, inward) - FilledSpan(b, col)
        base == IF depth <= 4 THEN 40 ELSE 20 - (depth - 4) * 2
    IN  IF depth < 3 THEN 0
        ELSE IF NoHole(b, col) THEN (base * 3) \div 2 ELSE base

\* C27: in the evaluator's well_quality the x1.5 bonus is applied to an edge
\* well column exactly when that column has no hole in its filled span,
\* columns of height > 0 that are solidly filled included: well_quality is
\* the best of the two edge columns' scores with the bonus so applied.
C27_BonusIffNoHole ==
    last_op = "evaluate_board" =>
        evaluate_well_quality(board) =
            MaxOf({0, EdgeWell(board, 1), EdgeWell(board, Len(board[1]))})

\* The case of C27: the left column is solidly filled, of height > 0 and 3
\* or 4 lower than its neighbour, the right column is no well, the board
\* is not dangerous, and well_quality is 10 (40 / 4), not 15
C27_SolidColumnWithoutBonus ==
    /\ last_op = "evaluate_board"
    /\ FilledSpan(board, 1) > 0
    /\ NoHole(board, 1)
    /\ FilledSpan(board, 2) - FilledSpan(board, 1) \in {3, 4}
    /\ EdgeWell(board, Len(board[1])) = 0
    /\ ~is_dangerous(board)
    /\ evaluate_well_quality(board) = 40

\* C28: well_quality and tetris_readiness contribute a non-zero amount to
\* the evaluator's score only when the board is not dangerous and the piece
\* just placed is the long (I) piece; for every other kind both are 0.
C28_WellTermsOnlyForLongPiece ==
    last_op = "evaluate_board" =>
        ((well_quality_score(board) # 0 \/ tetris_ready_score(board, cur.type) # 0)
            => (~is_dangerous(board) /\ cur.type = "I"))

\* The case of C28: the piece placed is the O piece, the board is not
\* dangerous and has an edge well, and well_quality is in the score
C28_WellQualityForSquarePiece ==
    /\ last_op = "evaluate_board"
    /\ cur.type = "O"
    /\ ~is_dangerous(board)
    /\ well_quality_score(board) > 0
    /\ tetris_ready_score(board, cur.type) = 0

\* The eleven terms of the score on board b for piece kind k, well_quality
\* times 4
Terms(b, k) ==
    << aggregate_height(b), count_complete_lines(b), count_holes(b),
       calculate_bumpiness(b), get_max_height(b), count_wells(b),
       count_row_transitions(b), count_column_transitions(b), count_pits(b),
       evaluate_well_quality(b), evaluate_tetris_readiness(b, k) >>

\* The two weight sets, times 1000 (well_quality's divided by 4)
NormalWeights == <<-800, 1200, -5000, -300, -1500, -500, -150, -100, -8000, 75, 800>>

PanicWeights == <<-2000, 1500, -10000, -1000, -5000, -2000, -500, -300, -15000, 0, 0>>

\* The linear combination of terms ts with weights ws
Weighted(ws, ts) == SumSeq([i \in 1..Len(ws) |-> ws[i] * ts[i]])

\* C29: evaluate_board selects its weight set by the danger flag
\* max_height > 0.6 * board_height: the normal-weight combination of the
\* eleven terms when the flag is false, the panic-weight combination with
\* well_quality and tetris_readiness forced to 0 when it is true; a board
\* whose max_height is exactly 0.6 * board_height is not dangerous.
C29_WeightsByDangerFlag ==
    last_op = "evaluate_board" =>
        LET max_height == MaxOf({FilledSpan(board, c) : c \in 1..Len(board[1])})
            flag == 10 * max_height > 6 * Len(board)
        IN  /\ evaluate_board(board, cur.type) =
                   Weighted(IF flag THEN PanicWeights ELSE NormalWeights,
                            Terms(board, cur.type))
            /\ flag = is_dangerous(board)
            /\ flag => (well_quality_score(board) = 0
                        /\ tetris_ready_score(board, cur.type) = 0)

\* The case of C29: the highest column is exactly 0.6 of the board's
\* height, an edge well is rewarded, and the score is the normal one
C29_AtThresholdNormalWeights ==
    /\ last_op = "evaluate_board"
    /\ 10 * get_max_height(board) = 6 * Len(board)
    /\ evaluate_well_quality(board) > 0
    /\ evaluate_board(board, cur.type) = Weighted(NormalWeights, Terms(board, cur.type))
    /\ evaluate_board(board, cur.type) # Weighted(PanicWeights, Terms(board, cur.type))


----------------------------------------------------------------------------
(* Manual play up to a four-row clear: the keys that place pieces, on the  *)
(* narrowest board, where four upright long pieces side by side complete   *)
(* four rows at once.                                                      *)

\* The bound on locks in the specification of the row clears
MaxLineLocks == 4

InitLines == InitGame(Width, Height, Kinds, {FALSE})

NextLines ==
    \/ MoveLeftKey
    \/ MoveRightKey
    \/ RotateKey
    \/ (locks < MaxLineLocks /\ HardDropKey(Kinds, MaxLineLocks))

SpecLines == InitLines /\ [][NextLines]_vars

\* C30: in every reachable state the board contains no fully occupied row
\* between operations, so every clear_lines call removes between 0 and 4
\* rows and the scoring-table lookup is never out of range.
C30_NoFullRowBetweenOperations ==
    /\ \A r \in 1..height : \E c \in 1..width : board[r][c] = 0
    /\ num_lines \in 0..4
    /\ num_lines + 1 \in DOMAIN Points

\* The case of C30: a hard drop has completed four rows at once, all four
\* are gone and the last entry of the scoring table was read
C30_FourRowsCleared ==
    /\ last_op = "hard_drop"
    /\ num_lines = 4
    /\ board = EmptyBoard(width, height)
    /\ score = Points[5] * 1


----------------------------------------------------------------------------
(* Claims on the search (SpecSearch), continued. *)

\* The boards the search hands to evaluate_board in one call of
\* get_best_move: test_board1 of every placement of the current piece
\* (ply 1) and test_board2 of every placement of the next piece on each
\* test_board1 (ply 2)
EvaluatedBoards ==
    LET ps == CurrentPlacements(cur.type)
        ply1 == {TestBoard1(ps[i]) : i \in 1..Len(ps)}
        ply2(b) == LET qs == NextPlacements(b, nxt.type) IN
                   {clear_lines_from_board(ScratchPlace(b, qs[j])) : j \in 1..Len(qs)}
    IN  ply1 \cup UNION {ply2(b) : b \in ply1}

\* C31: in every evaluate_board call the move search makes (ply 1 and
\* ply 2) the board passed in has no fully occupied row, so complete_lines
\* is 0 and the line-clear reward never affects which move is chosen.
C31_NoCompleteLineEvaluated ==
    last_op = "best_move" =>
        \A b \in EvaluatedBoards :
            /\ \A r \in 1..Len(b) : \E c \in 1..Len(b[r]) : b[r][c] = 0
            /\ count_complete_lines(b) = 0

\* The case of C31: the search has run on a board where a placement of the
\* current piece completes a row, and a move was chosen
C31_PlacementCompletesRow ==
    /\ last_op = "best_move"
    /\ last_move # NoMove
    /\ LET ps == CurrentPlacements(cur.type) IN
       \E i \in 1..Len(ps) : \E r \in 1..height : RowFull(ScratchPlace(board, ps[i])[r])


----------------------------------------------------------------------------
(* Claims on evaluate_board (SpecEval), continued. *)

\* The number of rows of board b above the topmost occupied cell of column
\* col: the distance from the top of the board to that cell; 0 for an empty
\* column
DistanceFromTop(b, col) ==
    LET occ == {r \in 1..Len(b) : b[r][col] # 0}
    IN  IF occ = {} THEN 0 ELSE MinOf(occ) - 1

\* C32, as stated: the column height used by the evaluator is the distance
\* from the top of the board to the first (topmost) occupied cell of the
\* column, and 0 for an empty column.
C32_HeightFromTop ==
    last_op = "evaluate_board" =>
        \A col \in 1..Len(board[1]) :
            get_column_heights(board)[col] = DistanceFromTop(board, col)

\* C32, amended: the column height used by the evaluator is the number of
\* rows from the first (topmost) occupied cell of the column down to the
\* floor, that cell included, and 0 for an empty column.
C32_HeightFromFloor ==
    last_op = "evaluate_board" =>
        \A col \in 1..Len(board[1]) :
            /\ get_column_heights(board)[col] = FilledSpan(board, col)
            /\ (\A r \in 1..Len(board) : board[r][col] = 0)
                   => get_column_heights(board)[col] = 0

\* The case of C32: a column with one cell on the floor, Len(board) - 1
\* rows below the top, has height 1, next to an empty column of height 0
C32_OneCellOnTheFloor ==
    /\ last_op = "evaluate_board"
    /\ DistanceFromTop(board, 1) = Len(board) - 1
    /\ get_column_heights(board)[1] = 1
    /\ \A r \in 1..Len(board) : board[r][2] = 0
    /\ get_column_heights(board)[2] = 0


----------------------------------------------------------------------------
(* Claims on the manual game (Spec), continued: the pause key. *)

\* The game as the player and the loop see it
GameState ==
    [board |-> board, cur |-> cur, nxt |-> nxt, score |-> score, level |-> level,
     lines_cleared |-> lines_cleared, game_over |-> game_over, paused |-> paused,
     fall_speed |-> fall_speed, since_fall |-> since_fall]

\* Game state s with the paused flag inverted
Toggled(s) == [s EXCEPT !.paused = ~s.paused]

\* C33: the pause key only toggles the paused flag: board, current and next
\* piece, score, level, lines cleared, game_over flag, fall interval and
\* fall timer are unchanged by it, and toggling twice returns the exact
\* prior state.
C33_PauseOnlyToggles ==
    [][last_op' = "pause" =>
        /\ paused' = ~paused
        /\ UNCHANGED <<board, cur, nxt, score, level, lines_cleared, game_over,
                       fall_speed, since_fall>>
        /\ GameState' = Toggled(GameState)
        /\ Toggled(GameState') = GameState]_vars

\* The case of C33: mid-game, with a piece on the board, another one
\* falling and the fall timer run up, the key has just ended a pause
C33_ResumedMidGame ==
    /\ last_op = "pause"
    /\ ~paused
    /\ locks > 0
    /\ board # EmptyBoard(width, height)
    /\ cur.y >= 0
    /\ since_fall > 0


----------------------------------------------------------------------------
(* The two line clears on the same board: the game is inside lock_piece    *)
(* with the piece placed (the boards of SpecClear), and either clear_lines *)
(* runs on it, or the search's _clear_lines_from_board is called with it   *)
(* as its argument.                                                        *)

\* What _clear_lines_from_board assigns of the board it is given: nothing.
\* new_board is a new list of copies (row[:]) of the rows kept, and the
\* empty rows are inserted into new_board
ScratchEffects == UNCHANGED board

\* self._clear_lines_from_board(board) called on the game's board
ScratchClearCall ==
    /\ last_op = "place_piece"
    /\ ScratchEffects
    /\ last_op' = "clear_lines_from_board"
    /\ UNCHANGED <<width, height, cur, nxt, score, level, lines_cleared, game_over,
                   paused, fall_speed, since_fall, ai_mode, ai_move_made, pc,
                   last_move, locks, num_lines>>

NextScratch ==
    \/ ClearLinesCall
    \/ ScratchClearCall

SpecScratch == InitClear /\ [][NextScratch]_vars

\* C34: the search's scratch line clearing agrees with the game's: for
\* every board, _clear_lines_from_board returns the same grid that
\* clear_lines leaves in the live board, and it does not modify the board
\* it was given.
C34_ScratchClearAgrees ==
    [][/\ last_op' = "clear_lines" => board' = clear_lines_from_board(board)
       /\ last_op' = "clear_lines_from_board" =>
              /\ board' = board
              /\ clear_lines_from_board(board) = ClearedBoard(board, width, height)]_vars

\* The case of C34: the scratch clear was called on a board with two
\* complete rows and a row to keep between them, which it still has
C34_ScratchOnSplitRows ==
    /\ last_op = "clear_lines_from_board"
    /\ CompleteRows(board) = 2
    /\ \E r \in 2..(height - 1) :
           /\ Complete(board[r - 1]) /\ Complete(board[r + 1])
           /\ ~Complete(board[r]) /\ board[r] # EmptyRow(width)
    /\ clear_lines_from_board(board) # board

====
